---- MODULE Spec2Model ----
(***************************************************************************)
(* A model of the klaus-oci client library: reference resolution,          *)
(* concurrent dependency resolution, the digest cache that gates pull, and *)
(* the tar.gz codec.  Strings are sequences of one-character strings, so   *)
(* that the code's index arithmetic on references and paths is modelled.   *)
(***************************************************************************)
EXTENDS Integers, Sequences, FiniteSets, TLC

VARIABLES
    opts,        \* the ClientOption list handed to NewClient (WithConcurrency values)
    concurrency, \* Client.concurrency
    p,           \* the Personality handed to ResolvePersonalityDeps
    ctxDone,     \* the caller's context has been cancelled
    next,        \* main goroutine: the next dependency to hand to g.Go
    sem,         \* errgroup: tasks holding a slot of the limit
    gErr,        \* errgroup: first non-nil error returned by a task
    mu,          \* sync.Mutex: the task holding it, or NoHolder
    tasks,       \* per task: position, describe outcome, loaded Warnings header
    result,      \* *ResolvedDependencies being assembled
    plugins,     \* the pre-sized []DescribedPlugin
    ret,         \* what ResolvePersonalityDeps returned
    registry,    \* pull: the manifest digest the tag v1 points at now
    clock,       \* pull: time.Now()
    dir,         \* pull: destDir, its extracted content and its cache record
    last,        \* pull: the latest pull call, its input, trace and result
    cdir,        \* cache: a directory and its cache side file
    cop,         \* cache: the latest call on the directory and its result
    archive,     \* tar: the archive handed to extractTarGz
    fs,          \* tar: the file tree, every existing path with its kind
    xres,        \* tar: what extractTarGz returned
    pres,        \* tar: what createTarGz returned
    rin,         \* resolve: the arguments of resolveArtifactRef and the lister's answer
    rout,        \* resolve: what resolveArtifactRef returned, first and on its own output
    heap,        \* resolvePluginRefs: the backing arrays of the slices, by address
    loop,        \* resolvePluginRefs: its position, its slices and what it returned
    sv,          \* versions: a tag list and what sortedSemverTags and LatestSemverTag return
    rt,          \* references: a reference, its Ref() string and what the helpers parse back
    cat,         \* ListRepositories: the catalog, the paging position and the result
    arts,        \* listArtifacts: the repositories, the goroutines and the result
    psh          \* push: the reference, the registry's content and the calls made

depsVars == <<opts, concurrency, p, ctxDone, next, sem, gErr, mu, tasks,
              result, plugins, ret>>
pullVars == <<registry, clock, dir, last>>
cacheVars == <<cdir, cop>>
tarVars == <<archive, fs, xres, pres>>
resVars == <<rin, rout>>
refsVars == <<heap, loop>>
coreVars == <<depsVars, pullVars, cacheVars, tarVars, resVars, refsVars>>
listVars == <<sv, rt, cat, arts, psh>>
vars == <<depsVars, pullVars, cacheVars, tarVars, resVars, refsVars, listVars>>

(***************************************************************************)
(* Bounds of the model.                                                    *)
(***************************************************************************)
MaxPlugins == 2

MaxEntries == 2

MaxDigestLen == 1

MaxWrites == 2

MaxPulls == 3

(***************************************************************************)
(* String helpers (package strings), 1-based with 0 for "not found".       *)
(***************************************************************************)
SetMax(S) == CHOOSE x \in S : \A y \in S : y <= x

SetMin(S) == CHOOSE x \in S : \A y \in S : x <= y

LastIndex(s, c) ==
    LET I == {i \in 1..Len(s) : s[i] = c}
    IN  IF I = {} THEN 0 ELSE SetMax(I)

Index(s, c) ==
    LET I == {i \in 1..Len(s) : s[i] = c}
    IN  IF I = {} THEN 0 ELSE SetMin(I)

Contains(s, c) == \E i \in 1..Len(s) : s[i] = c

\* The white space of strings.TrimSpace that the inputs use.
Space == {" ", "\t", "\n"}

RECURSIVE TrimLeft(_)
TrimLeft(s) ==
    IF s # <<>> /\ Head(s) \in Space THEN TrimLeft(Tail(s)) ELSE s

RECURSIVE TrimRight(_)
TrimRight(s) ==
    IF s # <<>> /\ s[Len(s)] \in Space THEN TrimRight(SubSeq(s, 1, Len(s) - 1)) ELSE s

TrimSpace_LeftOnly(s) == TrimLeft(s)

TrimSpace(s) == TrimRight(TrimLeft(s))

HasPrefix(s, pre) ==
    Len(s) >= Len(pre) /\ SubSeq(s, 1, Len(pre)) = pre

(***************************************************************************)
(* Reference parsing (helpers.go) and PluginReference.Ref.                 *)
(***************************************************************************)
Latest == <<"l","a","t","e","s","t">>

DefaultPluginRegistry ==
    <<"g","s","o","c","i",".","a","z","u","r","e","c","r",".","i","o","/",
      "g","i","a","n","t","s","w","a","r","m","/",
      "k","l","a","u","s","-","p","l","u","g","i","n","s">>

DefaultToolchainRegistry ==
    <<"g","s","o","c","i",".","a","z","u","r","e","c","r",".","i","o","/",
      "g","i","a","n","t","s","w","a","r","m","/",
      "k","l","a","u","s","-","t","o","o","l","c","h","a","i","n","s">>

Ref_TagFirst(r) ==
    IF r.Tag # <<>> THEN r.Repository \o <<":">> \o r.Tag
    ELSE IF r.Digest # <<>> THEN r.Repository \o <<"@">> \o r.Digest
    ELSE r.Repository

\* PluginReference.Ref
Ref(r) ==
    IF r.Digest # <<>> THEN r.Repository \o <<"@">> \o r.Digest
    ELSE IF r.Tag # <<>> THEN r.Repository \o <<":">> \o r.Tag
    ELSE r.Repository

\* ToolchainReference.Ref
ToolchainRef(t) ==
    IF t.Digest # <<>> THEN t.Repository \o <<"@">> \o t.Digest
    ELSE IF t.Tag # <<>> THEN t.Repository \o <<":">> \o t.Tag
    ELSE t.Repository

hasDigest(ref) == Contains(ref, "@")

hasTagOrDigest_AnyColon(ref) == hasDigest(ref) \/ Contains(ref, ":")

hasTagOrDigest(ref) ==
    \/ hasDigest(ref)
    \/ LastIndex(ref, ":") > LastIndex(ref, "/")

extractTag(ref) ==
    IF hasDigest(ref) THEN <<>>
    ELSE IF LastIndex(ref, ":") > LastIndex(ref, "/")
         THEN SubSeq(ref, LastIndex(ref, ":") + 1, Len(ref))
         ELSE <<>>

SplitNameTag(ref) ==
    LET idx == LastIndex(ref, ":")
    IN  IF idx > LastIndex(ref, "/")
        THEN [name |-> SubSeq(ref, 1, idx - 1), tag |-> SubSeq(ref, idx + 1, Len(ref))]
        ELSE [name |-> ref, tag |-> <<>>]

RepositoryFromRef(ref) ==
    LET at == Index(ref, "@")
        nameStart == LastIndex(ref, "/")
        idx == LastIndex(ref, ":")
    IN  IF at > 1 THEN SubSeq(ref, 1, at - 1)
        ELSE IF idx > nameStart /\ nameStart >= 1 THEN SubSeq(ref, 1, idx - 1)
        ELSE ref

(***************************************************************************)
(* Reference resolution (resolve.go).  lst is what the tag lister answers  *)
(* for the repository asked: its error ("" for none) and the value of      *)
(* LatestSemverTag over the tags it lists.  A result carries the resolved  *)
(* reference, the error, the repositories whose tags were listed, and the  *)
(* text of the error as fmt.Errorf builds it: the words of the format and  *)
(* the characters of its arguments.                                        *)
(***************************************************************************)
resolveLatestTagForRepo(repo, lst) ==
    IF lst.err # ""
    THEN [tag |-> <<>>, err |-> "listing tags", listed |-> <<repo>>,
          msg |-> <<"listing tags for ">> \o repo \o <<": ", lst.err>>]
    ELSE IF lst.latest = <<>>
         THEN [tag |-> <<>>, err |-> "no semver tags found", listed |-> <<repo>>,
               msg |-> <<"no semver tags found for ">> \o repo]
         ELSE [tag |-> lst.latest, err |-> "", listed |-> <<repo>>, msg |-> <<>>]

resolveLatestSemver_Partial(repo, lst) ==
    LET t == resolveLatestTagForRepo(repo, lst)
    IN  IF t.err # "" THEN [ref |-> repo, err |-> t.err, listed |-> t.listed, msg |-> t.msg]
        ELSE [ref |-> repo \o <<":">> \o t.tag, err |-> "", listed |-> t.listed, msg |-> <<>>]

resolveLatestSemver(repo, lst) ==
    LET t == resolveLatestTagForRepo(repo, lst)
    IN  IF t.err # "" THEN [ref |-> <<>>, err |-> t.err, listed |-> t.listed, msg |-> t.msg]
        ELSE [ref |-> repo \o <<":">> \o t.tag, err |-> "", listed |-> t.listed, msg |-> <<>>]

resolveArtifactRef_NoEmptyCheck(ref0, registryBase, lst) ==
    LET ref == TrimSpace(ref0)
        nt == SplitNameTag(ref)
        fullRepo == registryBase \o <<"/">> \o nt.name
    IN  IF Contains(ref, "/")
        THEN IF ~hasTagOrDigest(ref) THEN resolveLatestSemver(ref, lst)
             ELSE IF hasDigest(ref) THEN [ref |-> ref, err |-> "", listed |-> <<>>, msg |-> <<>>]
             ELSE IF extractTag(ref) # Latest
                  THEN [ref |-> ref, err |-> "", listed |-> <<>>, msg |-> <<>>]
                  ELSE resolveLatestSemver(RepositoryFromRef(ref), lst)
        ELSE IF nt.tag # <<>> /\ nt.tag # Latest
             THEN [ref |-> fullRepo \o <<":">> \o nt.tag, err |-> "", listed |-> <<>>,
                   msg |-> <<>>]
             ELSE resolveLatestSemver(fullRepo, lst)

resolveArtifactRef(ref0, registryBase, lst) ==
    LET ref == TrimSpace(ref0)
        nt == SplitNameTag(ref)
        fullRepo == registryBase \o <<"/">> \o nt.name
    IN  IF ref = <<>>
        THEN [ref |-> <<>>, err |-> "empty artifact reference", listed |-> <<>>,
              msg |-> <<"empty artifact reference">>]
        ELSE IF Contains(ref, "/")
        THEN IF ~hasTagOrDigest(ref) THEN resolveLatestSemver(ref, lst)
             ELSE IF hasDigest(ref) THEN [ref |-> ref, err |-> "", listed |-> <<>>, msg |-> <<>>]
             ELSE IF extractTag(ref) # Latest
                  THEN [ref |-> ref, err |-> "", listed |-> <<>>, msg |-> <<>>]
                  ELSE resolveLatestSemver(RepositoryFromRef(ref), lst)
        ELSE IF nt.tag # <<>> /\ nt.tag # Latest
             THEN [ref |-> fullRepo \o <<":">> \o nt.tag, err |-> "", listed |-> <<>>,
                   msg |-> <<>>]
             ELSE resolveLatestSemver(fullRepo, lst)

(***************************************************************************)
(* The client (client.go).                                                 *)
(***************************************************************************)
defaultConcurrency == 10

WithConcurrency(n, c) == IF n > 0 THEN n ELSE c

RECURSIVE ApplyOptions(_, _)
ApplyOptions(c, os) ==
    IF os = <<>> THEN c
    ELSE ApplyOptions(WithConcurrency(Head(os), c), Tail(os))

NewClient(os) == ApplyOptions(defaultConcurrency, os)

\* newRepository: the transport's reference parser splits registry from
\* path at the first "/", and the path at "@" or else at ":".
newRepository(ref) ==
    LET slash == Index(ref, "/")
        path == SubSeq(ref, slash + 1, Len(ref))
        at == Index(path, "@")
        colon == Index(path, ":")
    IN  IF slash = 0 THEN [err |-> "parsing reference", tag |-> <<>>]
        ELSE IF at # 0 THEN [err |-> "", tag |-> SubSeq(path, at + 1, Len(path))]
        ELSE IF colon # 0 THEN [err |-> "", tag |-> SubSeq(path, colon + 1, Len(path))]
        ELSE [err |-> "", tag |-> <<>>]

(***************************************************************************)
(* Describe (describe.go).  net is what the transport answers to this      *)
(* call: the tag listing, the manifest/config fetch, and the name the      *)
(* fetched metadata carries.  A cancelled context fails every transport    *)
(* call.                                                                   *)
(***************************************************************************)
Canceled == "context canceled"

ZeroDescribed == [Ref |-> <<>>, Tag |-> <<>>, Name |-> <<>>]

fetchManifest(ref, net, cancelled) ==
    LET nr == newRepository(ref)
    IN  IF nr.err # "" THEN [err |-> nr.err, tag |-> <<>>]
        ELSE IF nr.tag = <<>> THEN [err |-> "must include a tag or digest", tag |-> <<>>]
        ELSE IF cancelled THEN [err |-> Canceled, tag |-> <<>>]
        ELSE IF net.fetch # "" THEN [err |-> net.fetch, tag |-> <<>>]
        ELSE [err |-> "", tag |-> nr.tag]

\* The rest of Describe*, once the reference is resolved to r.
describeResolved(r, net, cancelled) ==
    IF r.err # "" THEN [err |-> r.err, d |-> ZeroDescribed]
    ELSE LET fm == fetchManifest(r.ref, net, cancelled)
         IN  IF fm.err # "" THEN [err |-> fm.err, d |-> ZeroDescribed]
             ELSE [err |-> "", d |-> [Ref |-> r.ref, Tag |-> fm.tag, Name |-> net.name]]

Describe(ref, registryBase, net, cancelled) ==
    LET lst == IF cancelled THEN [err |-> Canceled, latest |-> <<>>] ELSE net.list
    IN  describeResolved(resolveArtifactRef(ref, registryBase, lst), net, cancelled)

DescribePlugin(ref, net, cancelled) ==
    Describe(ref, DefaultPluginRegistry, net, cancelled)

DescribeToolchain(ref, net, cancelled) ==
    Describe(ref, DefaultToolchainRegistry, net, cancelled)

(***************************************************************************)
(* ResolvePersonalityDeps: inputs.                                         *)
(***************************************************************************)
RECURSIVE SeqsUpTo(_, _)
SeqsUpTo(S, n) ==
    IF n = 0 THEN {<<>>}
    ELSE LET shorter == SeqsUpTo(S, n - 1)
         IN  shorter \cup {Append(q, x) : q \in shorter, x \in S}

\* The WithConcurrency values of the options handed to NewClient, in order.
OptionLists == {<<>>, <<0 - 1>>, <<0>>, <<1>>, <<2>>, <<1, 0>>}

NoReference == [Repository |-> <<>>, Tag |-> <<>>, Digest |-> <<>>]

PluginReferences ==
    { [Repository |-> <<"h","/","a">>, Tag |-> <<"v","1">>, Digest |-> <<>>],
      [Repository |-> <<"h","/","b">>, Tag |-> <<>>, Digest |-> <<>>] }

ToolchainReferences ==
    { NoReference,
      [Repository |-> <<"h","/","t">>, Tag |-> <<>>, Digest |-> <<>>] }

Personalities ==
    [Toolchain : ToolchainReferences, Plugins : SeqsUpTo(PluginReferences, MaxPlugins)]

ListOutcomes ==
    { [err |-> "", latest |-> <<"v","2">>],
      [err |-> "registry unreachable", latest |-> <<>>] }

NetOutcomes ==
    { [list |-> l, fetch |-> "", name |-> n] : l \in ListOutcomes, n \in {<<>>, <<"n">>} }
    \cup { [list |-> [err |-> "", latest |-> <<"v","2">>], fetch |-> "not found", name |-> <<>>] }

(***************************************************************************)
(* ResolvePersonalityDeps: the errgroup, the mutex and the tasks.          *)
(* Task 0 describes the toolchain, task i the plugin p.Plugins[i].         *)
(***************************************************************************)
NoHolder == 0 - 1

NumPlugins == Len(p.Plugins)

TaskIds == 0..NumPlugins

IdleTask == [st |-> "idle", out |-> [err |-> "", d |-> ZeroDescribed], snap |-> <<>>]

\* g.SetLimit(n): g.Go blocks while n tasks are active; a negative n is no limit.
SlotFree_OffByOne(limit, held) == limit < 0 \/ held <= limit

SlotFree(limit, held) == limit < 0 \/ held < limit

MutexAvailable_NoLock(m) == TRUE

\* mu.Lock() returns only when no task holds mu.
MutexAvailable(m) == m = NoHolder

TaskReturn_Propagate(out) == out.err

\* Both branches of a task return nil.
TaskReturn(out) == ""

\* The compaction keeps the non-zero entries of plugins.
Collected(dp) == dp.Name # <<>> \/ dp.Ref # <<>>

Compact_Reverse(ps) ==
    LET kept == SelectSeq(ps, Collected)
    IN  [i \in 1..Len(kept) |-> kept[Len(kept) + 1 - i]]

Compact(ps) == SelectSeq(ps, Collected)

\* errgroup.WithContext: the tasks' context is done when the caller's is, or
\* once a task has returned an error.
GroupCtxDone == ctxDone \/ gErr # ""

AllJoined_NoWait(held) == TRUE

\* g.Wait() returns when no task is running.
AllJoined(held) == held = 0

DepRef(i) == IF i = 0 THEN Ref(p.Toolchain) ELSE Ref(p.Plugins[i])

DepKind(i) == IF i = 0 THEN "toolchain" ELSE "plugin"

\* fmt.Sprintf("<kind> %s: %v", ref, err)
Warning(i, err) == [kind |-> DepKind(i), ref |-> DepRef(i), err |-> err]

DepsInit ==
    /\ opts \in OptionLists
    /\ concurrency = NewClient(opts)
    /\ p \in Personalities
    /\ ctxDone = FALSE
    /\ next = 0
    /\ sem = 0
    /\ gErr = ""
    /\ mu = NoHolder
    /\ tasks = [i \in 0..Len(p.Plugins) |-> IdleTask]
    /\ result = [Toolchain |-> ZeroDescribed, hasToolchain |-> FALSE,
                 Plugins |-> <<>>, Warnings |-> <<>>]
    /\ plugins = [i \in 1..Len(p.Plugins) |-> ZeroDescribed]
    /\ ret = [done |-> FALSE, err |-> "", hasResult |-> FALSE]

\* if p.Toolchain.Repository != "" { g.Go(...) }
GoToolchain ==
    /\ ~ret.done /\ next = 0
    /\ p.Toolchain.Repository # <<>>
    /\ SlotFree(concurrency, sem)
    /\ sem' = sem + 1
    /\ tasks' = [tasks EXCEPT ![0].st = "run"]
    /\ next' = 1
    /\ UNCHANGED <<listVars, resVars, refsVars, pullVars, cacheVars, tarVars, opts, concurrency, p, ctxDone, gErr, mu, result, plugins, ret>>

SkipToolchain ==
    /\ ~ret.done /\ next = 0
    /\ p.Toolchain.Repository = <<>>
    /\ next' = 1
    /\ UNCHANGED <<listVars, resVars, refsVars, pullVars, cacheVars, tarVars, opts, concurrency, p, ctxDone, sem, gErr, mu, tasks, result,
                   plugins, ret>>

\* for i, pRef := range p.Plugins { g.Go(...) }
GoPlugin ==
    /\ ~ret.done /\ next \in 1..NumPlugins
    /\ SlotFree(concurrency, sem)
    /\ sem' = sem + 1
    /\ tasks' = [tasks EXCEPT ![next].st = "run"]
    /\ next' = next + 1
    /\ UNCHANGED <<listVars, resVars, refsVars, pullVars, cacheVars, tarVars, opts, concurrency, p, ctxDone, gErr, mu, result, plugins, ret>>

\* The results of the Describe calls over the model's inputs.
DescribedToolchains ==
    [r \in ToolchainReferences, net \in NetOutcomes, c \in BOOLEAN |->
        DescribeToolchain(Ref(r), net, c)]

DescribedPlugins ==
    [r \in PluginReferences, net \in NetOutcomes, c \in BOOLEAN |->
        DescribePlugin(Ref(r), net, c)]

\* What the task's Describe call can return, over the transport's answers.
DescribeOutcomes(i) ==
    { IF i = 0 THEN DescribedToolchains[p.Toolchain, net, GroupCtxDone]
               ELSE DescribedPlugins[p.Plugins[i], net, GroupCtxDone] : net \in NetOutcomes }

\* The task's Describe call returns.
DescribeReturns(i) ==
    /\ tasks[i].st = "run"
    /\ \E o \in DescribeOutcomes(i) :
         tasks' = [tasks EXCEPT ![i].st = "lock", ![i].out = o]
    /\ UNCHANGED <<listVars, resVars, refsVars, pullVars, cacheVars, tarVars, opts, concurrency, p, ctxDone, next,
                   sem, gErr, mu, result, plugins, ret>>

\* mu.Lock(); the append that follows starts from the Warnings read here.
Lock(i) ==
    /\ tasks[i].st = "lock"
    /\ MutexAvailable(mu)
    /\ mu' = i
    /\ tasks' = [tasks EXCEPT ![i].st = "crit", ![i].snap = result.Warnings]
    /\ UNCHANGED <<listVars, resVars, refsVars, pullVars, cacheVars, tarVars, opts, concurrency, p, ctxDone, next, sem, gErr, result,
                   plugins, ret>>

\* The body of the critical section, the deferred mu.Unlock(), the task's
\* return and the errgroup's bookkeeping for it.
Unlock(i) ==
    /\ tasks[i].st = "crit"
    /\ LET out == tasks[i].out
           rv == TaskReturn(out)
       IN  /\ result' =
                IF out.err # ""
                THEN [result EXCEPT !.Warnings = Append(tasks[i].snap, Warning(i, out.err))]
                ELSE IF i = 0
                     THEN [result EXCEPT !.Toolchain = out.d, !.hasToolchain = TRUE]
                     ELSE result
           /\ plugins' = IF out.err = "" /\ i # 0
                         THEN [plugins EXCEPT ![i] = out.d]
                         ELSE plugins
           /\ gErr' = IF gErr = "" THEN rv ELSE gErr
    /\ mu' = NoHolder
    /\ sem' = sem - 1
    /\ tasks' = [tasks EXCEPT ![i].st = "done"]
    /\ UNCHANGED <<listVars, resVars, refsVars, pullVars, cacheVars, tarVars, opts, concurrency, p, ctxDone, next, ret>>

\* g.Wait(), then the compaction of plugins and the return.
Wait ==
    /\ ~ret.done /\ next > NumPlugins
    /\ AllJoined(sem)
    /\ IF gErr # ""
       THEN /\ ret' = [done |-> TRUE, err |-> gErr, hasResult |-> FALSE]
            /\ UNCHANGED result
       ELSE /\ result' = [result EXCEPT !.Plugins = Compact(plugins)]
            /\ ret' = [done |-> TRUE, err |-> "", hasResult |-> TRUE]
    /\ UNCHANGED <<listVars, resVars, refsVars, pullVars, cacheVars, tarVars, opts, concurrency, p, ctxDone, next, sem, gErr, mu, tasks, plugins>>

\* The caller cancels the context while the call is running.
Cancel ==
    /\ ~ret.done /\ ~ctxDone
    /\ ctxDone' = TRUE
    /\ UNCHANGED <<listVars, resVars, refsVars, pullVars, cacheVars, tarVars, opts, concurrency, p, next, sem, gErr, mu, tasks, result,
                   plugins, ret>>


(***************************************************************************)
(* Paths (package path/filepath, Unix) and the file tree.  A tree is the   *)
(* set of the existing paths, each with its kind.                          *)
(***************************************************************************)
destDir == <<"/","d">>

RECURSIVE Split(_)
\* The elements of a path, between its separators.
Split(s) ==
    LET i == Index(s, "/")
    IN  IF i = 0 THEN <<s>>
        ELSE <<SubSeq(s, 1, i - 1)>> \o Split(SubSeq(s, i + 1, Len(s)))

RECURSIVE JoinElems(_)
JoinElems(es) ==
    IF es = <<>> THEN <<>>
    ELSE IF Len(es) = 1 THEN es[1]
    ELSE es[1] \o <<"/">> \o JoinElems(Tail(es))

DotDot == <<".", ".">>

RECURSIVE CleanElems(_, _, _)
\* filepath.Clean, element by element: empty and "." elements are dropped,
\* ".." removes the element before it, is dropped at the root, and is kept
\* at the start of a relative path.
CleanElems(es, out, rooted) ==
    IF es = <<>> THEN out
    ELSE LET e == Head(es)
             kept == IF e = <<>> \/ e = <<".">> THEN out
                     ELSE IF e = DotDot
                          THEN IF out # <<>> /\ out[Len(out)] # DotDot
                               THEN SubSeq(out, 1, Len(out) - 1)
                               ELSE IF rooted THEN out ELSE Append(out, e)
                          ELSE Append(out, e)
         IN  CleanElems(Tail(es), kept, rooted)

Clean(path) ==
    IF path = <<>> THEN <<".">>
    ELSE LET rooted == path[1] = "/"
             out == JoinElems(CleanElems(Split(path), <<>>, rooted))
         IN  IF rooted THEN <<"/">> \o out
             ELSE IF out = <<>> THEN <<".">> ELSE out

IsAbs(path) == HasPrefix(path, <<"/">>)

\* filepath.Join of two elements: empty elements are ignored, the rest is cleaned.
Join(a, b) ==
    IF a = <<>> /\ b = <<>> THEN <<>>
    ELSE IF a = <<>> THEN Clean(b)
    ELSE IF b = <<>> THEN Clean(a)
    ELSE Clean(a \o <<"/">> \o b)

\* filepath.Dir: the path up to its last separator, cleaned.
Dir(path) == Clean(SubSeq(path, 1, LastIndex(path, "/")))

Kind(tree, path) ==
    IF \E e \in tree : e.path = path
    THEN (CHOOSE e \in tree : e.path = path).kind
    ELSE "none"

\* An entry of a file tree: its path, what it is, and for a regular file the
\* number of its bytes and the bytes themselves (size bytes of data).
DirNode(path) == [path |-> path, kind |-> "dir", size |-> 0, data |-> ""]

FileNode(path, size, data) == [path |-> path, kind |-> "file", size |-> size, data |-> data]

\* The tree without the entry at path.
Without(tree, path) == {e \in tree : e.path # path}

\* The destination as cleanAndCreate leaves it: an empty directory.
FreshDest == {DirNode(<<"/">>), DirNode(destDir)}

\* The tree without the destination.
NoDest == {DirNode(<<"/">>)}

\* os.Mkdir(path), once the parent was made.
Mkdir(parent, path) ==
    IF parent.err # "" THEN parent
    ELSE [tree |-> parent.tree \cup {DirNode(path)}, err |-> ""]

RECURSIVE MkdirAll(_, _)
\* os.MkdirAll: nothing to do for a directory, an error for a file, else the
\* parent is made first.
MkdirAll(tree, path) ==
    IF Kind(tree, path) = "dir" THEN [tree |-> tree, err |-> ""]
    ELSE IF Kind(tree, path) = "file" \/ Dir(path) = path
         THEN [tree |-> tree, err |-> "not a directory"]
         ELSE Mkdir(MkdirAll(tree, Dir(path)), path)

\* os.OpenFile(target, O_CREATE|O_WRONLY|O_TRUNC, mode)
OpenFile(tree, target) ==
    IF Kind(tree, target) = "dir" THEN [tree |-> tree, err |-> "is a directory"]
    ELSE IF Kind(tree, Dir(target)) # "dir"
         THEN [tree |-> tree, err |-> "no such file or directory"]
         ELSE [tree |-> Without(tree, target) \cup {FileNode(target, 0, "")}, err |-> ""]

(***************************************************************************)
(* extractTarGz.  An archive is a gzip stream (or not), the tar headers it *)
(* holds, and whether the tar stream breaks off after them instead of      *)
(* ending.                                                                 *)
(***************************************************************************)
maxExtractFileSize == 104857600

InvalidPath_RelativeOnly(name) == HasPrefix(name, DotDot)

\* strings.HasPrefix(name, "..") || filepath.IsAbs(name)
InvalidPath(name) == HasPrefix(name, DotDot) \/ IsAbs(name)

\* case tar.TypeDir, once os.MkdirAll(target) returned m.
madeDir(m) ==
    [tree |-> m.tree, err |-> IF m.err # "" THEN "creating directory" ELSE ""]

\* The bytes io.LimitReader(tr, maxExtractFileSize+1) lets through.
Limited(size) == IF size > maxExtractFileSize THEN maxExtractFileSize + 1 ELSE size

Copy_Nothing(tree, target, header) ==
    Without(tree, target) \cup {FileNode(target, 0, "")}

\* io.Copy(f, io.LimitReader(tr, maxExtractFileSize+1)) into the opened file.
Copy(tree, target, header) ==
    Without(tree, target) \cup {FileNode(target, Limited(header.Size), header.Data)}

\* case tar.TypeReg, once os.OpenFile returned o: the copy and the size check.
copied(o, header, target) ==
    IF o.err # "" THEN [tree |-> o.tree, err |-> "creating file"]
    ELSE IF Limited(header.Size) > maxExtractFileSize
         THEN [tree |-> Copy(o.tree, target, header), err |-> "exceeds max size"]
         ELSE [tree |-> Copy(o.tree, target, header), err |-> ""]

\* case tar.TypeReg, once os.MkdirAll(filepath.Dir(target)) returned m.
madeFile(m, header, target) ==
    IF m.err # "" THEN [tree |-> m.tree, err |-> "creating parent directory"]
    ELSE copied(OpenFile(m.tree, target), header, target)

extractTarget_LinkAsFile(tree, header, target) ==
    IF ~HasPrefix(Clean(target), Clean(destDir))
    THEN [tree |-> tree, err |-> "path escapes destination"]
    ELSE IF header.Typeflag = "dir" THEN madeDir(MkdirAll(tree, target))
    ELSE madeFile(MkdirAll(tree, Dir(target)), header, target)

\* The loop body from the second path check on.
extractTarget(tree, header, target) ==
    IF ~HasPrefix(Clean(target), Clean(destDir))
    THEN [tree |-> tree, err |-> "path escapes destination"]
    ELSE IF header.Typeflag = "dir" THEN madeDir(MkdirAll(tree, target))
    ELSE IF header.Typeflag = "reg" THEN madeFile(MkdirAll(tree, Dir(target)), header, target)
    ELSE [tree |-> tree, err |-> ""]

\* The loop body from the first path check on, name being the cleaned name.
extractName(tree, header, name) ==
    IF InvalidPath(name) THEN [tree |-> tree, err |-> "invalid path in archive"]
    ELSE extractTarget(tree, header, Join(destDir, name))

\* One iteration of the loop over the headers.
extractEntry(tree, header) == extractName(tree, header, Clean(header.Name))

RECURSIVE extractEntries(_, _, _)
\* The loop goes on after an entry e unless e failed.
afterEntry(e, headers, read) ==
    IF e.err # "" THEN [tree |-> e.tree, err |-> e.err, read |-> read]
    ELSE extractEntries(e.tree, headers, read)

\* The loop: it stops at the first header that fails.  read counts the
\* headers read.
extractEntries(tree, headers, read) ==
    IF headers = <<>> THEN [tree |-> tree, err |-> "", read |-> read]
    ELSE afterEntry(extractEntry(tree, Head(headers)), Tail(headers), read + 1)

\* tr.Next() after the last header: io.EOF, or an error when the stream
\* breaks off.
endOfArchive(r, broken) ==
    IF r.err = "" /\ broken
    THEN [tree |-> r.tree, err |-> "reading tar entry", read |-> r.read]
    ELSE r

extractTarGz(tree, ar) ==
    IF ~ar.gzip THEN [tree |-> tree, err |-> "creating gzip reader", read |-> 0]
    ELSE endOfArchive(extractEntries(tree, ar.headers, 0), ar.broken)

\* Header names: plain, nested, with "." and ".." elements that stay inside,
\* with ".." elements that leave, absolute, and names that only start with dots.
Names ==
    { <<>>, <<"a">>, <<"a","/","b">>, <<".","/","a">>,
      <<"a","/",".",".","/","b">>, <<"a","/",".",".">>,
      <<".",".">>, <<".",".","/","a">>, <<"a","/",".",".","/",".",".","/","a">>,
      <<"/","a">>, <<".",".","a">> }

\* Directories and links carry no bytes; a regular file is empty, small, or
\* one byte over the limit.
Headers ==
    [Name : Names, Typeflag : {"dir", "symlink"}, Size : {0}, Data : {""}]
    \cup [Name : Names, Typeflag : {"reg"}, Size : {0}, Data : {""}]
    \cup [Name : Names, Typeflag : {"reg"}, Size : {1, maxExtractFileSize + 1}, Data : {"x"}]

Archives ==
    { [gzip |-> FALSE, headers |-> <<>>, broken |-> FALSE] }
    \cup [gzip : {TRUE}, headers : SeqsUpTo(Headers, MaxEntries), broken : BOOLEAN]

TarInit ==
    /\ archive \in Archives
    /\ fs = FreshDest
    /\ xres = [done |-> FALSE, err |-> "", read |-> 0]
    /\ pres = [done |-> FALSE, err |-> ""]

\* extractTarGz(r, destDir) runs on the archive.
Extract ==
    /\ ~xres.done
    /\ \E r \in {extractTarGz(fs, archive)} :
         /\ fs' = r.tree
         /\ xres' = [done |-> TRUE, err |-> r.err, read |-> r.read]
    /\ UNCHANGED <<listVars, resVars, refsVars, depsVars, pullVars, cacheVars, archive, pres>>

(***************************************************************************)
(* createTarGz.  filepath.WalkDir visits sourceDir and what is below it,   *)
(* a directory before its entries and the entries of a directory in the    *)
(* order of their names; it reads links, it does not follow them.          *)
(***************************************************************************)
sourceDir == <<"/", "s">>

cacheFileName == <<".oci-cache.json">>

\* The names that entries of the source trees have, in byte order.
SortedNames == << <<".", ".", "a">>, cacheFileName, <<"a">>, <<"b">> >>

NodeAt(tree, path) == CHOOSE e \in tree : e.path = path

\* filepath.Rel(sourceDir, path) for a path at or below sourceDir.
Rel(base, path) ==
    IF path = base THEN <<".">> ELSE SubSeq(path, Len(base) + 2, Len(path))

\* filepath.Base of a cleaned relative path.
Base(rel) == SubSeq(rel, LastIndex(rel, "/") + 1, Len(rel))

RECURSIVE Walk(_, _)
RECURSIVE WalkChildren(_, _, _)
\* The entries of the directory at path from the i-th name on, each with
\* what is below it.
WalkChildren(tree, path, i) ==
    IF i > Len(SortedNames) THEN <<>>
    ELSE (IF Kind(tree, path \o <<"/">> \o SortedNames[i]) = "none" THEN <<>>
          ELSE Walk(tree, path \o <<"/">> \o SortedNames[i]))
         \o WalkChildren(tree, path, i + 1)

\* The paths in the order in which filepath.WalkDir hands them to its
\* function.
Walk(tree, path) ==
    <<path>> \o (IF Kind(tree, path) = "dir" THEN WalkChildren(tree, path, 1) ELSE <<>>)

Visit_KeepCacheFile(node, relPath) ==
    IF relPath = <<".">> THEN <<>>
    ELSE IF node.kind \notin {"dir", "file"} THEN <<>>
    ELSE << [Name |-> relPath, Typeflag |-> IF node.kind = "dir" THEN "dir" ELSE "reg",
             Size |-> node.size, Data |-> node.data] >>

\* The function handed to WalkDir: the headers (none or one) it writes for
\* the node with the relative path relPath.
Visit(node, relPath) ==
    IF relPath = <<".">> THEN <<>>
    ELSE IF Base(relPath) = cacheFileName THEN <<>>
    ELSE IF node.kind \notin {"dir", "file"} THEN <<>>
    ELSE << [Name |-> relPath, Typeflag |-> IF node.kind = "dir" THEN "dir" ELSE "reg",
             Size |-> node.size, Data |-> node.data] >>

RECURSIVE VisitAll(_, _)
\* The headers written for the paths of a walk.
VisitAll(tree, paths) ==
    IF paths = <<>> THEN <<>>
    ELSE Visit(NodeAt(tree, Head(paths)), Rel(sourceDir, Head(paths)))
         \o VisitAll(tree, Tail(paths))

createTarGz(tree) ==
    IF Kind(tree, sourceDir) = "none"
    THEN [err |-> "no such file or directory",
          archive |-> [gzip |-> FALSE, headers |-> <<>>, broken |-> FALSE]]
    ELSE [err |-> "",
          archive |-> [gzip |-> TRUE, headers |-> VisitAll(tree, Walk(tree, sourceDir)),
                       broken |-> FALSE]]

\* A node below sourceDir.
Src(rel, kind, size, data) ==
    [path |-> sourceDir \o <<"/">> \o rel, kind |-> kind, size |-> size, data |-> data]

\* What the source holds at "a": nothing, a file (empty, small, or one byte
\* over the extraction limit), a link, or a directory holding nothing, a
\* file, a link, a directory or a file with the name of the cache file.
TreesAtA ==
    { {}, {Src(<<"a">>, "symlink", 0, "")} }
    \cup { {Src(<<"a">>, "file", n, IF n = 0 THEN "" ELSE "x")} :
              n \in {0, 1, maxExtractFileSize + 1} }
    \cup { {Src(<<"a">>, "dir", 0, "")} \cup below :
              below \in { t \cup c :
                  t \in { {}, {Src(<<"a","/","b">>, "file", 1, "y")},
                            {Src(<<"a","/","b">>, "symlink", 0, "")},
                            {Src(<<"a","/","b">>, "dir", 0, "")} },
                  c \in { {}, {Src(<<"a","/">> \o cacheFileName, "file", 1, "r")} } } }

\* What the source holds under the name of the cache file: nothing, the
\* record that pull wrote, or a directory of that name, empty or not.
TreesAtCacheFile ==
    { {}, {Src(cacheFileName, "file", 1, "r")},
      {Src(cacheFileName, "dir", 0, "")},
      {Src(cacheFileName, "dir", 0, ""), Src(cacheFileName \o <<"/","b">>, "file", 1, "y")} }

\* What the source holds at "..a": nothing or a file.
TreesAtDotDotA == { {}, {Src(<<".", ".", "a">>, "file", 1, "x")} }

SourceTrees ==
    { {DirNode(sourceDir)} \cup a \cup c \cup d :
        a \in TreesAtA, c \in TreesAtCacheFile, d \in TreesAtDotDotA }
    \cup { {} }

PackInit ==
    /\ \E t \in SourceTrees : fs = FreshDest \cup t
    /\ archive = [gzip |-> FALSE, headers |-> <<>>, broken |-> FALSE]
    /\ xres = [done |-> FALSE, err |-> "", read |-> 0]
    /\ pres = [done |-> FALSE, err |-> ""]

\* createTarGz(sourceDir) runs on the tree.
CreateTarGz ==
    /\ ~pres.done
    /\ \E r \in {createTarGz(fs)} :
         /\ archive' = r.archive
         /\ pres' = [done |-> TRUE, err |-> r.err]
    /\ UNCHANGED <<listVars, resVars, refsVars, depsVars, pullVars, cacheVars, fs, xres>>

\* extractTarGz(bytes.NewReader(data), destDir) runs on what createTarGz returned.
ExtractCreated ==
    /\ pres.done /\ pres.err = ""
    /\ Extract


(***************************************************************************)
(* The cache record (cache.go).  A directory is its file tree and the      *)
(* bytes of its .oci-cache.json, as what they decode to.  A string is a    *)
(* sequence of characters; InvalidByte stands for a byte that is part of   *)
(* no UTF-8 sequence.                                                      *)
(***************************************************************************)
InvalidByte == "xFF"

ReplacementChar == "uFFFD"

ValidUTF8(s) == \A i \in 1..Len(s) : s[i] # InvalidByte

\* encoding/json writes a byte that is no UTF-8 as U+FFFD, and "<" escaped.
encodeChar(c) ==
    IF c = InvalidByte THEN ReplacementChar
    ELSE IF c = "<" THEN "u003c"
    ELSE c

encodeString(s) == [i \in 1..Len(s) |-> encodeChar(s[i])]

decodeChar(c) == IF c = "u003c" THEN "<" ELSE c

decodeString(s) == [i \in 1..Len(s) |-> decodeChar(s[i])]

\* json.RawMessage values: none, or a document in some layout, or bytes
\* that are no JSON.
NoConfig == [doc |-> "", layout |-> "none"]

\* CacheEntry{}
ZeroEntry ==
    [Digest |-> <<>>, Ref |-> <<>>, PulledAt |-> 0, ConfigJSON |-> NoConfig,
     Annotations |-> "nil"]

NoFile == [kind |-> "none"]

\* What a write that failed part-way leaves: bytes that are no JSON document.
PartialFile == [kind |-> "partial"]

\* json.MarshalIndent(entry, "", "  "): empty ConfigJSON and empty
\* Annotations are omitted, ConfigJSON must be JSON and is laid out anew.
MarshalIndent(entry) ==
    IF entry.ConfigJSON # NoConfig /\ entry.ConfigJSON.layout = "invalid"
    THEN [err |-> "json: error calling MarshalJSON", data |-> NoFile]
    ELSE [err |-> "",
          data |-> [kind |-> "json",
                    digest |-> encodeString(entry.Digest),
                    ref |-> encodeString(entry.Ref),
                    pulledAt |-> entry.PulledAt,
                    configJSON |-> IF entry.ConfigJSON = NoConfig THEN NoConfig
                                   ELSE [doc |-> entry.ConfigJSON.doc, layout |-> "indented"],
                    annotations |-> IF entry.Annotations \in {"nil", "empty"} THEN "omitted"
                                    ELSE entry.Annotations]]

\* json.Unmarshal(data, &entry)
Unmarshal(data) ==
    IF data.kind # "json" THEN [err |-> "invalid character", entry |-> ZeroEntry]
    ELSE [err |-> "",
          entry |-> [Digest |-> decodeString(data.digest),
                     Ref |-> decodeString(data.ref),
                     PulledAt |-> data.pulledAt,
                     ConfigJSON |-> data.configJSON,
                     Annotations |-> IF data.annotations = "omitted" THEN "nil"
                                     ELSE data.annotations]]

ReadCacheEntry_ZeroOnError(d) == [err |-> "", entry |-> Unmarshal(d.record).entry]

ReadCacheEntry(d) ==
    IF d.record = NoFile THEN [err |-> "no such file or directory", entry |-> ZeroEntry]
    ELSE Unmarshal(d.record)

IsCached_AnyRecord(d, digest) == ReadCacheEntry(d).err = ""

IsCached(d, digest) ==
    IF ReadCacheEntry(d).err # "" THEN FALSE
    ELSE ReadCacheEntry(d).entry.Digest = digest

\* cleanAndCreate: os.RemoveAll, then os.MkdirAll.  fault names the call that
\* fails: RemoveAll before it removed anything, RemoveAll after it removed
\* what the directory held, or MkdirAll.
cleanAndCreate(d, fault) ==
    IF fault = "remove" THEN [err |-> "cleaning destination", dir |-> d]
    ELSE IF fault = "removeRest"
    THEN [err |-> "cleaning destination",
          dir |-> [tree |-> {e \in d.tree : ~HasPrefix(e.path, destDir \o <<"/">>)},
                   record |-> NoFile]]
    ELSE IF fault = "mkdir"
    THEN [err |-> "creating destination", dir |-> [tree |-> NoDest, record |-> NoFile]]
    ELSE [err |-> "", dir |-> [tree |-> FreshDest, record |-> NoFile]]

\* WriteCacheEntry(dir, entry) at time now.  fault names what fails in
\* os.WriteFile: opening the file, or writing after it was truncated.
WriteFile(d, m, fault) ==
    IF m.err # "" THEN [err |-> m.err, dir |-> d]
    ELSE IF Kind(d.tree, destDir) # "dir" \/ fault = "open"
    THEN [err |-> "open .oci-cache.json", dir |-> d]
    ELSE IF fault = "write"
    THEN [err |-> "write .oci-cache.json", dir |-> [d EXCEPT !.record = PartialFile]]
    ELSE [err |-> "", dir |-> [d EXCEPT !.record = m.data]]

WriteCacheEntry(d, entry, now, fault) ==
    WriteFile(d, MarshalIndent([entry EXCEPT !.PulledAt = now]), fault)

\* Digests as the callers of the cache may pass them.
DigestChars == {"a", "<", InvalidByte, ReplacementChar}

Digests == SeqsUpTo(DigestChars, MaxDigestLen)

Configs ==
    { NoConfig, [doc |-> "c", layout |-> "compact"], [doc |-> "x", layout |-> "invalid"] }

Entries ==
    [Digest : Digests, Ref : {<<"h","/","a",":","v","1">>}, PulledAt : {0},
     ConfigJSON : Configs, Annotations : {"empty", "kv"}]

CacheInit ==
    /\ cdir \in {[tree |-> FreshDest, record |-> NoFile], [tree |-> NoDest, record |-> NoFile]}
    /\ cop = [n |-> 0, op |-> "none", entry |-> ZeroEntry, err |-> ""]

\* A caller writes a record.
Write ==
    /\ cop.n < MaxWrites
    /\ \E entry \in Entries, fault \in {"", "open", "write"} :
         \E w \in {WriteCacheEntry(cdir, entry, cop.n + 1, fault)} :
             /\ cdir' = w.dir
             /\ cop' = [n |-> cop.n + 1, op |-> "write", entry |-> entry, err |-> w.err]
    /\ UNCHANGED <<listVars, resVars, refsVars, depsVars, pullVars, tarVars>>

\* A caller empties the directory, as pull does before it extracts.
Recreate ==
    /\ cop.n < MaxWrites
    /\ \E fault \in {"", "remove", "removeRest", "mkdir"} :
         \E c \in {cleanAndCreate(cdir, fault)} :
             /\ cdir' = c.dir
             /\ cop' = [n |-> cop.n + 1, op |-> "clean", entry |-> ZeroEntry, err |-> c.err]
    /\ UNCHANGED <<listVars, resVars, refsVars, depsVars, pullVars, tarVars>>


(***************************************************************************)
(* pull (pull.go).  The registry holds four manifests; the tag v1 can be   *)
(* moved between them.  A pull meets at most one fault, which names the    *)
(* call that fails.                                                        *)
(***************************************************************************)
S1 == <<"s","1">>

S2 == <<"s","2">>

S3 == <<"s","3">>

S4 == <<"s","4">>

S5 == <<"s","5">>

PullDigests == {S1, S2, S3, S4, S5}

NoDigest == <<>>

V1 == <<"v","1">>

RegFile(name) == [Name |-> name, Typeflag |-> "reg", Size |-> 0, Data |-> ""]

Layer(mediaType, headers) ==
    [MediaType |-> mediaType,
     archive |-> [gzip |-> TRUE, headers |-> headers, broken |-> FALSE]]

\* What the registry serves for a manifest digest: the manifest's config
\* blob, layers and annotations.
ManifestOf(digest) ==
    CASE digest = S1 ->
           [Config |-> [doc |-> "c", layout |-> "compact"],
            Layers |-> <<Layer("plugin", <<RegFile(<<"a">>)>>)>>,
            Annotations |-> "kv"]
      [] digest = S2 ->
           [Config |-> [doc |-> "d", layout |-> "indented"],
            Layers |-> <<Layer("personality", <<RegFile(<<"s">>)>>),
                         Layer("plugin", <<RegFile(<<"a","/","b">>)>>)>>,
            Annotations |-> "empty"]
      [] digest = S3 ->
           [Config |-> [doc |-> "c", layout |-> "compact"],
            Layers |-> <<Layer("plugin", <<RegFile(<<"c">>),
                                           RegFile(<<".",".","/","a">>)>>)>>,
            Annotations |-> "nil"]
      [] digest = S5 ->
           [Config |-> [doc |-> "c", layout |-> "compact"],
            Layers |-> <<Layer("plugin", <<RegFile(<<"e">>),
                                           [Name |-> cacheFileName, Typeflag |-> "reg",
                                            Size |-> 1, Data |-> "r"],
                                           RegFile(<<".",".","/","a">>)>>)>>,
            Annotations |-> "kv"]
      [] OTHER ->
           [Config |-> [doc |-> "x", layout |-> "invalid"],
            Layers |-> <<Layer("plugin", <<RegFile(<<"e">>)>>)>>,
            Annotations |-> "kv"]

\* repo.Resolve(ctx, tag): a tag resolves to the digest it points at now, a
\* digest to itself.
Resolve(reg, reference) ==
    IF reference = V1 THEN reg
    ELSE IF reference \in PullDigests THEN reference
    ELSE NoDigest

NilResult ==
    [Digest |-> NoDigest, Ref |-> <<>>, Cached |-> FALSE, ConfigJSON |-> NoConfig,
     Annotations |-> "nil"]

CachedResult_NoMetadata(digest, ref, r) ==
    [Digest |-> digest, Ref |-> ref, Cached |-> TRUE, ConfigJSON |-> NoConfig,
     Annotations |-> "nil"]

\* The result of a cache hit, from what ReadCacheEntry returned.
CachedResult(digest, ref, r) ==
    [Digest |-> digest, Ref |-> ref, Cached |-> TRUE,
     ConfigJSON |-> IF r.err = "" THEN r.entry.ConfigJSON ELSE NoConfig,
     Annotations |-> IF r.err = "" THEN r.entry.Annotations ELSE "nil"]

\* The first layer of the kind's content media type, or 0.
ContentLayer(manifest, kind) ==
    LET I == {i \in 1..Len(manifest.Layers) : manifest.Layers[i].MediaType = kind}
    IN  IF I = {} THEN 0 ELSE SetMin(I)

\* The repo.Fetch calls of a pull that transfers content.
AllContent == {"manifest", "config", "layer"}

Failed(err, digest, d, fetched) ==
    [err |-> err, digest |-> digest, dir |-> d, fetched |-> fetched, res |-> NilResult]

\* pull, once WriteCacheEntry returned written.
recorded(ref, digest, manifest, written) ==
    IF written.err # ""
    THEN Failed("writing cache entry", digest, written.dir, AllContent)
    ELSE [err |-> "", digest |-> digest, dir |-> written.dir, fetched |-> AllContent,
          res |-> [Digest |-> digest, Ref |-> ref, Cached |-> FALSE,
                   ConfigJSON |-> manifest.Config,
                   Annotations |-> manifest.Annotations]]

\* The cache record of the directory: the file ReadCacheEntry and
\* WriteCacheEntry open.
recordFile == destDir \o <<"/">> \o cacheFileName

\* The bytes "r" of a file are a cache record: the one a pull of S1 wrote
\* into another directory.  Other bytes are no JSON document.
RecordBytes(data) ==
    IF data = "r"
    THEN MarshalIndent([Digest |-> S1, Ref |-> <<"h","/","a",":","v","1">>, PulledAt |-> 0,
                        ConfigJSON |-> ManifestOf(S1).Config,
                        Annotations |-> ManifestOf(S1).Annotations]).data
    ELSE PartialFile

\* The directory after extractTarGz: a regular file that the archive held
\* under the name of the cache file is the directory's record.
extractedDir(d, extracted) ==
    IF Kind(extracted.tree, recordFile) = "file"
    THEN [tree |-> Without(extracted.tree, recordFile),
          record |-> RecordBytes(NodeAt(extracted.tree, recordFile).data)]
    ELSE [d EXCEPT !.tree = extracted.tree]

\* pull, once extractTarGz returned extracted for the directory d.
extractedLayer(ref, digest, manifest, d, extracted, now, fault) ==
    IF extracted.err # ""
    THEN Failed("extracting content", digest, extractedDir(d, extracted), AllContent)
    ELSE recorded(ref, digest, manifest,
                  WriteCacheEntry(extractedDir(d, extracted),
                                  [Digest |-> digest, Ref |-> ref, PulledAt |-> 0,
                                   ConfigJSON |-> manifest.Config,
                                   Annotations |-> manifest.Annotations],
                                  now, fault))

\* pull, once cleanAndCreate returned cleaned.
cleanedDest(ref, digest, manifest, archive0, cleaned, now, fault) ==
    IF cleaned.err # "" THEN Failed(cleaned.err, digest, cleaned.dir, AllContent)
    ELSE extractedLayer(ref, digest, manifest, cleaned.dir,
                        extractTarGz(cleaned.dir.tree, archive0), now, fault)

\* pull, from the search for the content layer on.
pullLayer(ref, d, digest, manifest, layer, now, fault) ==
    IF layer = 0
    THEN Failed("no content layer found", digest, d, {"manifest", "config"})
    ELSE IF fault = "layer"
    THEN Failed("fetching content layer", digest, d, {"manifest", "config"})
    ELSE cleanedDest(ref, digest, manifest, manifest.Layers[layer].archive,
                     cleanAndCreate(d, fault), now, fault)

\* pull, from the fetch of the manifest on.
pullFresh(ref, kind, d, digest, now, fault) ==
    IF fault = "manifest" THEN Failed("fetching manifest", digest, d, {})
    ELSE IF fault = "parse" THEN Failed("parsing manifest", digest, d, {"manifest"})
    ELSE IF fault = "config" THEN Failed("fetching config", digest, d, {"manifest"})
    ELSE IF fault = "readConfig" THEN Failed("reading config", digest, d, {"manifest"})
    ELSE pullLayer(ref, d, digest, ManifestOf(digest),
                   ContentLayer(ManifestOf(digest), kind), now, fault)

\* pull, once repo.Resolve returned digest.
pullResolved(ref, kind, d, digest, now, fault) ==
    IF fault = "resolve" \/ digest = NoDigest THEN Failed("resolving", NoDigest, d, {})
    ELSE IF IsCached(d, digest)
    THEN [err |-> "", digest |-> digest, dir |-> d, fetched |-> {},
          res |-> CachedResult(digest, ref, ReadCacheEntry(d))]
    ELSE pullFresh(ref, kind, d, digest, now, fault)

\* pull, once newRepository returned nr.
pullParsed(ref, kind, d, reg, nr, now, fault) ==
    IF nr.err # "" THEN Failed(nr.err, NoDigest, d, {})
    ELSE IF nr.tag = <<>> THEN Failed("must include a tag or digest", NoDigest, d, {})
    ELSE pullResolved(ref, kind, d, Resolve(reg, nr.tag), now, fault)

pull(ref, kind, d, reg, now, fault) ==
    pullParsed(ref, kind, d, reg, newRepository(ref), now, fault)

PullRefs ==
    { <<"h","/","a",":","v","1">>, <<"h","/","a","@">> \o S1, <<"h","/","a">>, <<"a">> }

\* PullPlugin and PullPersonality
Kinds == {"plugin", "personality"}

Faults ==
    { "", "resolve", "manifest", "parse", "config", "readConfig", "layer",
      "remove", "removeRest", "mkdir", "open", "write" }

PullInit ==
    /\ registry \in PullDigests
    /\ clock = 0
    /\ dir \in { [tree |-> FreshDest, record |-> NoFile],
                 [tree |-> NoDest, record |-> NoFile] }
    /\ last = [n |-> 0, ref |-> <<>>, kind |-> "plugin", digest |-> NoDigest,
               fetched |-> {}, err |-> "", res |-> NilResult, synced |-> NoDigest]

\* PullPlugin or PullPersonality is called for destDir.  synced keeps the
\* history the cache is about: the digest of the latest pull that succeeded,
\* until a pull fetches something of another digest.
Pull ==
    /\ last.n < MaxPulls
    /\ \E ref \in PullRefs, kind \in Kinds, fault \in Faults :
         \E r \in {pull(ref, kind, dir, registry, clock + 1, fault)} :
             /\ dir' = r.dir
             /\ last' = [n |-> last.n + 1, ref |-> ref, kind |-> kind,
                         digest |-> r.digest, fetched |-> r.fetched, err |-> r.err,
                         res |-> r.res,
                         synced |-> IF r.err = "" THEN r.digest
                                    ELSE IF r.fetched # {} /\ r.digest # last.synced
                                         THEN NoDigest
                                         ELSE last.synced]
    /\ clock' = clock + 1
    /\ UNCHANGED <<listVars, resVars, refsVars, depsVars, cacheVars, tarVars, registry>>

\* Someone pushes to the repository: the tag points at another manifest.
Retag ==
    /\ \E digest \in PullDigests :
         /\ digest # registry
         /\ registry' = digest
    /\ UNCHANGED <<listVars, resVars, refsVars, depsVars, cacheVars, tarVars, clock, dir, last>>

(***************************************************************************)
(* LatestSemverTag (helpers.go) with semver.NewVersion and GreaterThan of   *)
(* Masterminds/semver: an optional "v", one to three numbers separated by  *)
(* dots, an optional pre-release after "-" and build metadata after "+".   *)
(***************************************************************************)
Digits == <<"0", "1", "2", "3", "4", "5", "6", "7", "8", "9">>

IsDigit(c) == \E i \in 1..Len(Digits) : Digits[i] = c

DigitValue(c) == (CHOOSE i \in 1..Len(Digits) : Digits[i] = c) - 1

RECURSIVE ParseUint(_, _)
\* strconv.ParseUint of a string of digits, acc being the value so far.
ParseUint(s, acc) ==
    IF s = <<>> THEN acc ELSE ParseUint(Tail(s), 10 * acc + DigitValue(Head(s)))

IsNumber(s) == s # <<>> /\ \A i \in 1..Len(s) : IsDigit(s[i])

RECURSIVE SplitBy(_, _)
SplitBy(s, c) ==
    IF Index(s, c) = 0 THEN <<s>>
    ELSE <<SubSeq(s, 1, Index(s, c) - 1)>> \o SplitBy(SubSeq(s, Index(s, c) + 1, Len(s)), c)

\* The part of s before the first c, and the part after it.
Before(s, c) == IF Index(s, c) = 0 THEN s ELSE SubSeq(s, 1, Index(s, c) - 1)

After(s, c) == IF Index(s, c) = 0 THEN <<>> ELSE SubSeq(s, Index(s, c) + 1, Len(s))

\* The characters of a pre-release or metadata identifier.
IsIdentChar(c) == IsDigit(c) \/ c \in {"a", "c", "r", "-", "."}

IsIdent(s) == s # <<>> /\ \A i \in 1..Len(s) : IsIdentChar(s[i])

NoVersion == [ok |-> FALSE, major |-> 0, minor |-> 0, patch |-> 0, pre |-> <<>>]

\* The version of the numbers, the pre-release and the metadata of a tag.
versionOf(nums, hasPre, pre, hasMeta, meta) ==
    IF \/ Len(nums) > 3
       \/ \E i \in 1..Len(nums) : ~IsNumber(nums[i])
       \/ hasPre /\ ~IsIdent(pre)
       \/ hasMeta /\ ~IsIdent(meta)
    THEN NoVersion
    ELSE [ok |-> TRUE,
          major |-> ParseUint(nums[1], 0),
          minor |-> IF Len(nums) > 1 THEN ParseUint(nums[2], 0) ELSE 0,
          patch |-> IF Len(nums) > 2 THEN ParseUint(nums[3], 0) ELSE 0,
          pre |-> pre]

\* semver.NewVersion of a tag without its leading "v".
parseVersion(s) ==
    versionOf(SplitBy(Before(Before(s, "+"), "-"), "."),
              Contains(Before(s, "+"), "-"), After(Before(s, "+"), "-"),
              Contains(s, "+"), After(s, "+"))

NewVersion(tag) ==
    IF tag # <<>> /\ Head(tag) = "v" THEN parseVersion(Tail(tag)) ELSE parseVersion(tag)

\* Version.GreaterThan: the numbers first; then a release is greater than its
\* pre-releases.  Two pre-releases of the same numbers compare by their
\* identifiers; the tags of the model have one pre-release, "rc".
GreaterThan(v, w) ==
    \/ v.major > w.major
    \/ v.major = w.major /\ v.minor > w.minor
    \/ v.major = w.major /\ v.minor = w.minor /\ v.patch > w.patch
    \/ v.major = w.major /\ v.minor = w.minor /\ v.patch = w.patch
         /\ v.pre = <<>> /\ w.pre # <<>>

RECURSIVE latestFrom(_, _, _)
\* The loop of LatestSemverTag, best and bestTag being what it holds.
latestFrom(tags, best, bestTag) ==
    IF tags = <<>> THEN bestTag
    ELSE IF ~NewVersion(Head(tags)).ok THEN latestFrom(Tail(tags), best, bestTag)
    ELSE IF ~best.ok \/ GreaterThan(NewVersion(Head(tags)), best)
         THEN latestFrom(Tail(tags), NewVersion(Head(tags)), Head(tags))
         ELSE latestFrom(Tail(tags), best, bestTag)

LatestSemverTag_First(tags) ==
    IF \E i \in 1..Len(tags) : NewVersion(tags[i]).ok
    THEN tags[SetMin({i \in 1..Len(tags) : NewVersion(tags[i]).ok})]
    ELSE <<>>

LatestSemverTag(tags) == latestFrom(tags, NoVersion, <<>>)

(***************************************************************************)
(* resolveArtifactRef on its inputs: a reference, a registry base and a    *)
(* lister that answers with a list of tags or with an error.               *)
(***************************************************************************)
MaxTags == 2

Tags ==
    { Latest,
      <<"v","1",".","0",".","0">>,
      <<"1",".","1",".","0">>,
      <<"v","1",".","1",".","0">>,
      <<"v","1",".","1",".","0","-","r","c">> }

\* What lister.List answers.
Listings ==
    [err : {""}, tags : SeqsUpTo(Tags, MaxTags)]
    \cup {[err |-> "repository not found", tags |-> <<>>]}

\* What comes before the last "/": nothing, a host, a host with a port, a
\* host with a port and a path, and a prefix with "@".
RefPrefixes ==
    { <<>>, <<"h","/">>, <<"h",":","5","/">>, <<"h",":","5","/","o","/">>, <<"u","@","h","/">> }

\* What comes after the last "/": a name, alone, with a tag, with the tag
\* "latest", with an empty tag, and with a digest.
RefSegments ==
    { <<>>, <<"a">>, <<"a",":","v","1">>, <<"a",":">> \o Latest, <<"a",":">>,
      <<"a","@","s",":","x">> }

Pad(s) == {s, <<" ">> \o s \o <<" ">>, <<"\t">> \o s \o <<"\n">>}

ResolveRefs == UNION { Pad(pre \o seg) : pre \in RefPrefixes, seg \in RefSegments }

RegistryBases == {DefaultPluginRegistry, <<"h">>, <<" ", "h">>}

\* The lister as resolveLatestTagForRepo sees it.
ListerOf(listing) == [err |-> listing.err, latest |-> LatestSemverTag(listing.tags)]

NotCalled == [done |-> FALSE, ref |-> <<>>, err |-> "", listed |-> <<>>, msg |-> <<>>]

Called(r) ==
    [done |-> TRUE, ref |-> r.ref, err |-> r.err, listed |-> r.listed, msg |-> r.msg]

ResolveInit ==
    /\ rin \in [ref : ResolveRefs, registryBase : RegistryBases, listing : Listings]
    /\ rout = [first |-> NotCalled, second |-> NotCalled]

\* resolveArtifactRef(ctx, lister, ref, registryBase)
ResolveArtifactRef ==
    /\ ~rout.first.done
    /\ rout' = [rout EXCEPT !.first =
                  Called(resolveArtifactRef(rin.ref, rin.registryBase, ListerOf(rin.listing)))]
    /\ UNCHANGED <<listVars, depsVars, pullVars, cacheVars, tarVars, refsVars, rin>>

\* resolveArtifactRef on what it returned before.
ResolveResolved ==
    /\ rout.first.done /\ rout.first.err = "" /\ ~rout.second.done
    /\ rout' = [rout EXCEPT !.second =
                  Called(resolveArtifactRef(rout.first.ref, rin.registryBase,
                                            ListerOf(rin.listing)))]
    /\ UNCHANGED <<listVars, depsVars, pullVars, cacheVars, tarVars, refsVars, rin>>

ResolveNext == ResolveArtifactRef \/ ResolveResolved

(***************************************************************************)
(* resolvePluginRefs.  A slice is the address of its backing array in the  *)
(* heap; the caller's slice is at CallerAddr, make allocates at NewAddr,   *)
(* and NilSlice is the nil slice.                                          *)
(***************************************************************************)
NilSlice == 0

CallerAddr == 1

NewAddr == 2

\* The repositories of the plugin references and what the lister answers
\* for each.
RefRepos == { <<"h","/","a">>, <<"h","/","b">> }

RefInputs ==
    [Repository : RefRepos, Tag : {<<>>, Latest, V1}, Digest : {<<>>, <<"s">>}]

\* What lister.List answers for a repository: an error, a list without a
\* semver tag, and two lists with the highest version in second and in
\* first place.
RefListings ==
    { [err |-> "repository not found", tags |-> <<>>],
      [err |-> "", tags |-> <<Latest>>],
      [err |-> "", tags |-> << <<"v","1",".","0",".","0">>, <<"1",".","1",".","0">> >>],
      [err |-> "", tags |-> << <<"v","1",".","1",".","0">>, <<"v","1",".","1",".","0","-","r","c">> >>] }

Listers == [RefRepos -> RefListings]

makeCopy_Alias(h, src) == [heap |-> h, addr |-> src]

\* resolved := make([]PluginReference, len(plugins)); copy(resolved, plugins)
makeCopy(h, src) == [heap |-> [h EXCEPT ![NewAddr] = h[src]], addr |-> NewAddr]

Skipped_AnyTag(e) == e.Digest # <<>> \/ e.Tag # <<>>

\* The entry is left as it is: it has a digest or a tag other than "latest".
Skipped(e) == e.Digest # <<>> \/ (e.Tag # <<>> /\ e.Tag # Latest)

RefsInit ==
    /\ \E in \in SeqsUpTo(RefInputs, MaxPlugins) :
          /\ heap = [a \in {CallerAddr, NewAddr} |-> IF a = CallerAddr THEN in ELSE <<>>]
          /\ \E l \in Listers :
                loop = [pc |-> "copy", i |-> 0, plugins |-> CallerAddr, resolved |-> NilSlice,
                        input |-> in, lister |-> l, ret |-> NilSlice, err |-> "",
                        msg |-> <<>>, listed |-> <<>>]

\* Lines 98-99: the copy of the input.
CopyInput ==
    /\ loop.pc = "copy"
    /\ \E c \in {makeCopy(heap, loop.plugins)} :
          /\ heap' = c.heap
          /\ loop' = [loop EXCEPT !.pc = "loop", !.i = 1, !.resolved = c.addr]
    /\ UNCHANGED <<listVars, depsVars, pullVars, cacheVars, tarVars, resVars>>

\* Lines 102-107: an entry with a digest or a tag is passed over.
SkipEntry ==
    /\ loop.pc = "loop" /\ loop.i <= Len(heap[loop.resolved])
    /\ Skipped(heap[loop.resolved][loop.i])
    /\ loop' = [loop EXCEPT !.i = @ + 1]
    /\ UNCHANGED <<listVars, depsVars, pullVars, cacheVars, tarVars, resVars, heap>>

resolveEntry_Continue(lp, h, t) ==
    IF t.err # ""
    THEN [heap |-> h, loop |-> [lp EXCEPT !.i = @ + 1, !.listed = @ \o t.listed]]
    ELSE [heap |-> [h EXCEPT ![lp.resolved][lp.i].Tag = t.tag],
          loop |-> [lp EXCEPT !.i = @ + 1, !.listed = @ \o t.listed]]

\* Lines 109-112, t being what resolveLatestTagForRepo returned for the
\* entry: the error is wrapped with the entry's repository and returned with
\* a nil slice, or the tag is written to the entry of the copy.
resolveEntry(lp, h, t) ==
    IF t.err # ""
    THEN [heap |-> h,
          loop |-> [lp EXCEPT !.pc = "done", !.ret = NilSlice, !.err = "resolving plugin",
                              !.msg = <<"resolving plugin ">> \o h[lp.resolved][lp.i].Repository
                                        \o <<": ">> \o t.msg,
                              !.listed = @ \o t.listed]]
    ELSE [heap |-> [h EXCEPT ![lp.resolved][lp.i].Tag = t.tag],
          loop |-> [lp EXCEPT !.i = @ + 1, !.listed = @ \o t.listed]]

\* Lines 108-112: the tag of an entry is resolved and written, or the call
\* returns the error.
ResolveEntry ==
    /\ loop.pc = "loop" /\ loop.i <= Len(heap[loop.resolved])
    /\ ~Skipped(heap[loop.resolved][loop.i])
    /\ \E r \in {resolveEntry(loop, heap,
                      resolveLatestTagForRepo(heap[loop.resolved][loop.i].Repository,
                          ListerOf(loop.lister[heap[loop.resolved][loop.i].Repository])))} :
          /\ heap' = r.heap
          /\ loop' = r.loop
    /\ UNCHANGED <<listVars, depsVars, pullVars, cacheVars, tarVars, resVars>>

\* Line 115: return resolved, nil
ReturnResolved ==
    /\ loop.pc = "loop" /\ loop.i > Len(heap[loop.resolved])
    /\ loop' = [loop EXCEPT !.pc = "done", !.ret = loop.resolved]
    /\ UNCHANGED <<listVars, depsVars, pullVars, cacheVars, tarVars, resVars, heap>>

RefsNext == CopyInput \/ SkipEntry \/ ResolveEntry \/ ReturnResolved

(***************************************************************************)
(* sortedSemverTags (listing.go): the tags that parse, sorted by           *)
(* slices.SortFunc with the versions compared in reverse.  slices.SortFunc *)
(* sorts a slice of up to maxInsertion elements by insertion, which keeps  *)
(* equal elements in their order; for a longer slice it promises no order  *)
(* among equal elements, and ties is the order the build gives them.       *)
(***************************************************************************)
MaxSortLen == 3

maxInsertion == 12

\* Version.Compare
Compare(v, w) == IF GreaterThan(v, w) THEN 1 ELSE IF GreaterThan(w, v) THEN 0 - 1 ELSE 0

RECURSIVE parsedVersions(_)
\* Lines 205-212: the parsed{tag, ver} of every tag semver.NewVersion accepts.
parsedVersions(tags) ==
    IF tags = <<>> THEN <<>>
    ELSE IF NewVersion(Head(tags)).ok
         THEN <<[tag |-> Head(tags), ver |-> NewVersion(Head(tags))]>>
              \o parsedVersions(Tail(tags))
         ELSE parsedVersions(Tail(tags))

byVersion_Ascending(a, b) == Compare(a.ver, b.ver)

\* func(a, b parsed) int { return b.ver.Compare(a.ver) }
byVersion(a, b) == Compare(b.ver, a.ver)

Swap(data, i, j) == [data EXCEPT ![i] = data[j], ![j] = data[i]]

RECURSIVE sink(_, _)
\* The inner loop of the insertion sort: data[j] moves down while it is less
\* than the element before it.
sink(data, j) ==
    IF j > 1 /\ byVersion(data[j], data[j - 1]) < 0
    THEN sink(Swap(data, j, j - 1), j - 1)
    ELSE data

RECURSIVE insertionSort(_, _)
insertionSort(data, i) ==
    IF i > Len(data) THEN data ELSE insertionSort(sink(data, i), i + 1)

Reverse(q) == [i \in 1..Len(q) |-> q[Len(q) + 1 - i]]

\* slices.SortFunc(versions, byVersion)
SortFunc(data, ties) ==
    IF Len(data) <= maxInsertion \/ ties = "kept" THEN insertionSort(data, 2)
    ELSE insertionSort(Reverse(data), 2)

\* Lines 218-222: the tags of the sorted versions.
tagsOf(versions) == [i \in 1..Len(versions) |-> versions[i].tag]

sortedSemverTags(tags, ties) == tagsOf(SortFunc(parsedVersions(tags), ties))

\* Tags: two that are no versions, releases, the same release without "v",
\* a pre-release, and patch numbers of one and two digits.
VersionTags ==
    { Latest, <<"m","a","i","n">>,
      <<"v","1",".","0",".","0">>,
      <<"1",".","1",".","0">>,
      <<"v","1",".","1",".","0">>,
      <<"v","1",".","1",".","0","-","r","c">>,
      <<"v","1",".","0",".","2">>,
      <<"v","1",".","0",".","1","0">> }

\* The decimal digits of a number below 100.
Decimal(n) ==
    IF n < 10 THEN <<Digits[n + 1]>> ELSE <<Digits[(n \div 10) + 1], Digits[(n % 10) + 1]>>

\* A list as a registry serves it, in ascending order: 0.1.0 to 0.48.0,
\* then 1.9.0 and v1.9.0.
LongTagList ==
    [k \in 1..50 |->
        IF k <= 48 THEN <<"0", ".">> \o Decimal(k) \o <<".", "0">>
        ELSE IF k = 49 THEN <<"1",".","9",".","0">>
        ELSE <<"v","1",".","9",".","0">>]

TagLists == SeqsUpTo(VersionTags, MaxSortLen) \cup {LongTagList}

NotSorted == [done |-> FALSE, tags |-> <<>>]

VersionsInit ==
    /\ \E tags \in TagLists, ties \in {"kept", "flipped"} :
          sv = [tags |-> tags, ties |-> ties, first |-> NotSorted, second |-> NotSorted,
                latest |-> NotSorted]

\* sortedSemverTags(tags)
SortTags ==
    /\ ~sv.first.done
    /\ sv' = [sv EXCEPT !.first = [done |-> TRUE, tags |-> sortedSemverTags(sv.tags, sv.ties)]]
    /\ UNCHANGED <<coreVars, rt, cat, arts, psh>>

\* sortedSemverTags(tags), once more
SortTagsAgain ==
    /\ sv.first.done /\ ~sv.second.done
    /\ sv' = [sv EXCEPT !.second = [done |-> TRUE, tags |-> sortedSemverTags(sv.tags, sv.ties)]]
    /\ UNCHANGED <<coreVars, rt, cat, arts, psh>>

\* LatestSemverTag(tags)
LatestTag ==
    /\ ~sv.latest.done
    /\ sv' = [sv EXCEPT !.latest = [done |-> TRUE, tags |-> LatestSemverTag(sv.tags)]]
    /\ UNCHANGED <<coreVars, rt, cat, arts, psh>>

VersionsNext == SortTags \/ SortTagsAgain \/ LatestTag

(***************************************************************************)
(* Ref() of a reference and the helpers that take a reference string       *)
(* apart again.                                                            *)
(***************************************************************************)
\* Repositories: a host with a path, with a port, with a longer path; a
\* name without host, a host with a port and no path, none, and one with
\* an "@" in it.
Repositories ==
    { <<"h","/","a">>, <<"h",":","5","/","a">>, <<"h",":","5","/","o","/","a">>,
      <<"a">>, <<"h",":","5">>, <<>>, <<"u","@","h","/","a">> }

\* Tags: none, a version, "latest", and one with a "/" in it.
References ==
    [Repository : Repositories, Tag : {<<>>, V1, Latest, <<"v","/","1">>},
     Digest : {<<>>, <<"s",":","x">>}]

RoundTripInit ==
    /\ \E r \in References, k \in {"plugin", "toolchain"} :
          rt = [pc |-> "build", kind |-> k, in |-> r, ref |-> <<>>,
                Repository |-> <<>>, Tag |-> <<>>]

\* p.Ref() or t.Ref()
BuildRef ==
    /\ rt.pc = "build"
    /\ rt' = [rt EXCEPT !.pc = "parse",
                        !.ref = IF rt.kind = "plugin" THEN Ref(rt.in) ELSE ToolchainRef(rt.in)]
    /\ UNCHANGED <<coreVars, sv, cat, arts, psh>>

\* RepositoryFromRef and extractTag on the string
ParseRef ==
    /\ rt.pc = "parse"
    /\ rt' = [rt EXCEPT !.pc = "done", !.Repository = RepositoryFromRef(rt.ref),
                        !.Tag = extractTag(rt.ref)]
    /\ UNCHANGED <<coreVars, sv, cat, arts, psh>>

RoundTripNext == BuildRef \/ ParseRef

(***************************************************************************)
(* ListRepositories (client.go).  The catalog of the registry is the list  *)
(* of its repository names in ascending order; reg.Repositories serves the *)
(* names after the seek position in pages and hands each page to the       *)
(* callback, until the callback returns an error.                          *)
(***************************************************************************)
MaxPageSize == 2

\* The characters of the names, in the order of their bytes.
CharOrder == <<"-", ".", "/", "0", "a", "b", "f", "h", "n", "o", "p", "x", "z">>

Ord(c) == CHOOSE i \in 1..Len(CharOrder) : CharOrder[i] = c

RECURSIVE Less(_, _)
\* s < t as Go compares strings: byte by byte.
Less(s, t) ==
    IF t = <<>> THEN FALSE
    ELSE IF s = <<>> THEN TRUE
    ELSE IF Head(s) # Head(t) THEN Ord(Head(s)) < Ord(Head(t))
    ELSE Less(Tail(s), Tail(t))

\* SplitRegistryBase
SplitRegistryBase(base) ==
    IF Index(base, "/") = 0 THEN [host |-> base, prefix |-> <<>>]
    ELSE [host |-> SubSeq(base, 1, Index(base, "/") - 1),
          prefix |-> SubSeq(base, Index(base, "/") + 1, Len(base)) \o <<"/">>]

\* strings.TrimSuffix(prefix, "/")
TrimSuffix(s, c) ==
    IF s # <<>> /\ s[Len(s)] = c THEN SubSeq(s, 1, Len(s) - 1) ELSE s

visit_StopAtMismatch(name, prefix) ==
    IF ~HasPrefix(name, prefix) THEN "stop" ELSE "take"

\* The callback on one name of a page: the name is taken, passed over, or
\* ends the enumeration.
visit(name, prefix) ==
    IF ~HasPrefix(name, prefix)
    THEN IF Less(prefix, name) THEN "stop" ELSE "skip"
    ELSE "take"

RECURSIVE batchFrom(_, _, _, _)
\* The callback on a page, repos being what was collected before.
batchFrom(batch, host, prefix, repos) ==
    IF batch = <<>> THEN [repos |-> repos, stop |-> FALSE]
    ELSE IF visit(Head(batch), prefix) = "stop" THEN [repos |-> repos, stop |-> TRUE]
    ELSE IF visit(Head(batch), prefix) = "skip"
         THEN batchFrom(Tail(batch), host, prefix, repos)
         ELSE batchFrom(Tail(batch), host, prefix,
                        Append(repos, host \o <<"/">> \o Head(batch)))

\* The place in the catalog of the first name after the seek position.
FirstAfter(names, seekPos) ==
    Cardinality({i \in 1..Len(names) : ~Less(seekPos, names[i])}) + 1

\* Repository names: before the prefix o/p/, the seek position itself,
\* names that share the prefix as a string and sort before and after the
\* names under it, names under it, and names after it.
CatalogNames ==
    << <<"n","/","x">>, <<"o","/","a">>, <<"o","/","p">>, <<"o","/","p","-","x","/","f">>,
       <<"o","/","p","/","a">>, <<"o","/","p","/","b">>, <<"o","/","p","0","/","f">>,
       <<"o","/","z">> >>

\* The catalogs: the names of a set of places of CatalogNames, in order.
Catalogs == { SelectSeq(CatalogNames, LAMBDA n : \E i \in I : CatalogNames[i] = n) :
                I \in SUBSET (1..Len(CatalogNames)) }

RegistryBasePaths == { <<"h","/","o","/","p">>, <<"h","/","o">> }

CatalogInit ==
    /\ \E names \in Catalogs, base \in RegistryBasePaths, size \in 1..MaxPageSize :
          cat = [pc |-> "start", names |-> names, size |-> size, registryBase |-> base,
                 host |-> <<>>, prefix |-> <<>>, pos |-> 0, pages |-> 0,
                 repos |-> <<>>, err |-> "", msg |-> <<>>]

\* Lines 95-108: the host, the prefix and the seek position.
StartListing ==
    /\ cat.pc = "start"
    /\ \E sp \in {SplitRegistryBase(cat.registryBase)} :
          cat' = [cat EXCEPT !.pc = "page", !.host = sp.host, !.prefix = sp.prefix,
                             !.pos = FirstAfter(cat.names, TrimSuffix(sp.prefix, "/"))]
    /\ UNCHANGED <<coreVars, sv, rt, arts, psh>>

\* The registry serves the next page and the callback runs on it (lines
\* 111-121); after the last page, or when the callback stopped the
\* enumeration, the call returns what it collected.
NextPage ==
    /\ cat.pc = "page"
    /\ \E b \in {batchFrom(SubSeq(cat.names, cat.pos,
                                  IF cat.pos + cat.size - 1 > Len(cat.names)
                                  THEN Len(cat.names) ELSE cat.pos + cat.size - 1),
                           cat.host, cat.prefix, cat.repos)} :
          cat' = [cat EXCEPT !.repos = b.repos, !.pos = @ + cat.size, !.pages = @ + 1,
                             !.pc = IF b.stop \/ cat.pos + cat.size > Len(cat.names)
                                    THEN "done" ELSE "page"]
    /\ UNCHANGED <<coreVars, sv, rt, arts, psh>>

\* The request of a page fails: lines 122-124.
PageFails ==
    /\ cat.pc = "page"
    /\ cat' = [cat EXCEPT !.pc = "done", !.repos = <<>>, !.err = "listing repositories",
                          !.msg = <<"listing repositories in ">> \o cat.registryBase
                                  \o <<": ", "catalog unavailable">>]
    /\ UNCHANGED <<coreVars, sv, rt, arts, psh>>

CatalogNext == StartListing \/ NextPage \/ PageFails

(***************************************************************************)
(* listArtifacts (listing.go): the repositories under the base are         *)
(* filtered, each is resolved in a goroutine of an errgroup with a limit,  *)
(* the goroutines append under a mutex, and the list is sorted at the end. *)
(***************************************************************************)
MaxRepos == 3

\* The repositories listRepositories can return, in the order of the catalog.
ArtifactRepos ==
    << <<"h","/","a">>, <<"h","/","b">>, <<"h","/","f">>, <<"h","/","n">>, <<"h","/","o">> >>

\* What lister.List answers for a repository: an error, a list without a
\* semver tag, and a list with the highest version in second place.
ArtifactListings ==
    { [err |-> "repository not found", tags |-> <<>>],
      [err |-> "", tags |-> <<Latest>>],
      [err |-> "", tags |-> << <<"v","1",".","0",".","0">>, <<"1",".","1",".","0">> >>] }

\* cfg.filter: none, one that rejects h/b, and one that rejects everything.
Filters == {"nil", "not b", "none"}

Accepts(filter, repo) ==
    IF filter = "not b" THEN repo # <<"h","/","b">> ELSE filter # "none"

\* Lines 69-77: the filter on the repositories found.
filtered(filter, repos) ==
    IF filter = "nil" THEN repos ELSE SelectSeq(repos, LAMBDA r : Accepts(filter, r))

\* strings.Compare(a.Repository, b.Repository)
byRepository(a, b) ==
    IF Less(a.Repository, b.Repository) THEN 0 - 1
    ELSE IF Less(b.Repository, a.Repository) THEN 1 ELSE 0

RECURSIVE sinkArtifact(_, _)
sinkArtifact(data, j) ==
    IF j > 1 /\ byRepository(data[j], data[j - 1]) < 0
    THEN sinkArtifact(Swap(data, j, j - 1), j - 1)
    ELSE data

RECURSIVE insertArtifacts(_, _)
insertArtifacts(data, i) ==
    IF i > Len(data) THEN data ELSE insertArtifacts(sinkArtifact(data, i), i + 1)

sortArtifacts_Unsorted(artifacts) == artifacts

\* slices.SortFunc(artifacts, byRepository), for up to maxInsertion entries.
sortArtifacts(artifacts) == insertArtifacts(artifacts, 2)

IdleResolution == [st |-> "idle", ref |-> <<>>, snap |-> <<>>]

ArtifactsInit ==
    /\ \E n \in 0..MaxRepos, filter \in Filters, limit \in 1..2 :
          \E listing \in [1..n -> ArtifactListings] :
              arts = [pc |-> "start", found |-> SubSeq(ArtifactRepos, 1, n),
                      listing |-> [i \in 1..n |-> listing[i]],
                      filter |-> filter, concurrency |-> limit, repos |-> <<>>,
                      next |-> 1, sem |-> 0, mu |-> NoHolder, tasks |-> <<>>,
                      artifacts |-> <<>>,
                      ret |-> [done |-> FALSE, err |-> "", artifacts |-> <<>>]]

\* The listing of the repository at place i of repos.
ListingOf(a, i) ==
    a.listing[CHOOSE k \in 1..Len(a.found) : a.found[k] = a.repos[i]]

\* Lines 64-77: listRepositories returned the repositories; the filter.
Discover ==
    /\ arts.pc = "start"
    /\ \E rs \in {filtered(arts.filter, arts.found)} :
          arts' = [arts EXCEPT !.pc = "go", !.repos = rs,
                               !.tasks = [i \in 1..Len(rs) |-> IdleResolution]]
    /\ UNCHANGED <<coreVars, sv, rt, cat, psh>>

\* Lines 64-67: listRepositories failed.
DiscoverFails ==
    /\ arts.pc = "start"
    /\ arts' = [arts EXCEPT !.pc = "done",
                            !.ret = [done |-> TRUE, err |-> "listing repositories",
                                     artifacts |-> <<>>]]
    /\ UNCHANGED <<coreVars, sv, rt, cat, psh>>

\* g.Go for the next repository, once a slot of the limit is free.
GoResolve ==
    /\ arts.pc = "go" /\ arts.next <= Len(arts.repos)
    /\ SlotFree(arts.concurrency, arts.sem)
    /\ arts' = [arts EXCEPT !.tasks[arts.next].st = "run", !.sem = @ + 1, !.next = @ + 1]
    /\ UNCHANGED <<coreVars, sv, rt, cat, psh>>

\* c.ResolveLatestVersion(ctx, repo) returns in goroutine i: on an error the
\* goroutine returns nil.
ResolveReturns(i) ==
    /\ arts.pc = "go" /\ arts.tasks[i].st = "run"
    /\ \E r \in {resolveLatestSemver(arts.repos[i], ListerOf(ListingOf(arts, i)))} :
          arts' = IF r.err # ""
                  THEN [arts EXCEPT !.tasks[i].st = "done", !.sem = @ - 1]
                  ELSE [arts EXCEPT !.tasks[i].st = "lock", !.tasks[i].ref = r.ref]
    /\ UNCHANGED <<coreVars, sv, rt, cat, psh>>

\* mu.Lock(); the append starts from the artifacts read here.
LockArtifacts(i) ==
    /\ arts.pc = "go" /\ arts.tasks[i].st = "lock"
    /\ MutexAvailable(arts.mu)
    /\ arts' = [arts EXCEPT !.mu = i, !.tasks[i].st = "crit", !.tasks[i].snap = arts.artifacts]
    /\ UNCHANGED <<coreVars, sv, rt, cat, psh>>

\* The append, mu.Unlock() and the return of goroutine i.
UnlockArtifacts(i) ==
    /\ arts.pc = "go" /\ arts.tasks[i].st = "crit"
    /\ arts' = [arts EXCEPT !.artifacts = Append(arts.tasks[i].snap,
                                                  [Repository |-> arts.repos[i],
                                                   Reference |-> arts.tasks[i].ref]),
                            !.mu = NoHolder, !.tasks[i].st = "done", !.sem = @ - 1]
    /\ UNCHANGED <<coreVars, sv, rt, cat, psh>>

\* g.Wait(), the sort and the return.
WaitAndSort ==
    /\ arts.pc = "go" /\ arts.next > Len(arts.repos)
    /\ AllJoined(arts.sem)
    /\ arts' = [arts EXCEPT !.pc = "done",
                            !.ret = [done |-> TRUE, err |-> "",
                                     artifacts |-> sortArtifacts(arts.artifacts)]]
    /\ UNCHANGED <<coreVars, sv, rt, cat, psh>>

ArtifactsNext ==
    \/ Discover
    \/ DiscoverFails
    \/ GoResolve
    \/ \E i \in 1..MaxRepos : i <= Len(arts.repos) /\ ResolveReturns(i)
    \/ \E i \in 1..MaxRepos : i <= Len(arts.repos) /\ LockArtifacts(i)
    \/ \E i \in 1..MaxRepos : i <= Len(arts.repos) /\ UnlockArtifacts(i)
    \/ WaitAndSort

(***************************************************************************)
(* push (push.go).  The registry keeps what repo.Push and repo.Tag wrote,  *)
(* in the order of the calls.  A descriptor's digest is the digest of its  *)
(* content and stands for the content here.  Every registry call may fail; *)
(* the transport's error names the request, which holds the repository.   *)
(* configJSON is what json.Marshal made of the Plugin or Personality, so   *)
(* buildAnnotations and the marshaling of the manifest do not fail.        *)
(***************************************************************************)
PushRefs ==
    { <<"h","/","a",":","v","1">>, <<"h","/","a">>, <<"a">>, <<"h","/","a","@">> \o S1 }

PushConfigs == { [name |-> "", description |-> ""], [name |-> "n", description |-> "d"] }

\* sourceDir is missing, empty, or holds a file.
PushTrees ==
    { {}, {DirNode(sourceDir)}, {DirNode(sourceDir), Src(<<"a">>, "file", 1, "x")} }

\* The error of a failed registry request.
transportError(ref) ==
    <<"request to ">> \o RepositoryFromRef(ref) \o <<": response status code 500">>

buildAnnotations(config, tag) ==
    (IF config.name # "" THEN {<<"title", config.name>>} ELSE {})
    \cup (IF tag # <<>> THEN {<<"version", tag>>} ELSE {})
    \cup (IF config.description # "" THEN {<<"description", config.description>>} ELSE {})

Descriptor(mediaType, content) == [MediaType |-> mediaType, Digest |-> content]

configDesc(st) == Descriptor(<<st.kind, "config">>, st.config)

layerDesc(st, layerData) == Descriptor(<<st.kind, "content">>, layerData)

manifestDesc(st) ==
    Descriptor(<<"manifest">>,
               [Config |-> configDesc(st), Layers |-> <<st.layer>>,
                Annotations |-> buildAnnotations(st.config, st.tag)])

\* push returns nil and the error.
pushFailed(st, err, msg) == [st EXCEPT !.pc = "done", !.err = err, !.msg = msg]

\* After repo.Push or repo.Tag returned.
written(st, ok, write, then, err, msg) ==
    IF ok THEN [st EXCEPT !.pc = then, !.registry = Append(@, write)]
    ELSE pushFailed(st, err, msg \o transportError(st.ref))

\* The tag/digest portion is empty: push refuses the reference.
tagRequired(tag) == tag = <<>>

PushInit ==
    psh \in [pc : {"start"}, ref : PushRefs, kind : Kinds, config : PushConfigs,
             tree : PushTrees, tag : {<<>>}, layer : {<<>>}, registry : {<<>>},
             err : {""}, msg : {<<>>}, Digest : {<<>>}]

\* newRepository fails, or the reference has no tag: nothing is written.
RejectReference ==
    /\ psh.pc = "start"
    /\ \E nr \in {newRepository(psh.ref)} :
         \/ /\ nr.err # ""
            /\ psh' = pushFailed(psh, nr.err,
                         <<"parsing reference ", "\"">> \o psh.ref \o <<"\"", ": invalid reference">>)
         \/ /\ nr.err = ""
            /\ tagRequired(nr.tag)
            /\ psh' = pushFailed(psh, "must include a tag",
                         <<"reference ", "\"">> \o psh.ref \o <<"\"", " must include a tag">>)
    /\ UNCHANGED <<coreVars, sv, rt, cat, arts>>

\* repo.Push of the config blob.
PushConfigBlob ==
    /\ psh.pc = "start"
    /\ \E nr \in {newRepository(psh.ref)}, ok \in BOOLEAN :
         /\ nr.err = ""
         /\ ~tagRequired(nr.tag)
         /\ psh' = written([psh EXCEPT !.tag = nr.tag], ok,
                           [op |-> "push", desc |-> configDesc(psh)], "layer",
                           "pushing config blob", <<"pushing config blob: ">>)
    /\ UNCHANGED <<coreVars, sv, rt, cat, arts>>

\* createTarGz(sourceDir) fails.
CreateArchiveFails ==
    /\ psh.pc = "layer"
    /\ \E r \in {createTarGz(FreshDest \cup psh.tree)} :
         /\ r.err # ""
         /\ psh' = pushFailed(psh, "creating archive",
                       <<"creating archive: ", "lstat ">> \o sourceDir \o <<": ", r.err>>)
    /\ UNCHANGED <<coreVars, sv, rt, cat, arts>>

\* createTarGz(sourceDir), then repo.Push of the content layer.
PushContentLayer ==
    /\ psh.pc = "layer"
    /\ \E r \in {createTarGz(FreshDest \cup psh.tree)}, ok \in BOOLEAN :
         /\ r.err = ""
         /\ psh' = written([psh EXCEPT !.layer = layerDesc(psh, r.archive)], ok,
                           [op |-> "push", desc |-> layerDesc(psh, r.archive)], "manifest",
                           "pushing content layer", <<"pushing content layer: ">>)
    /\ UNCHANGED <<coreVars, sv, rt, cat, arts>>

\* buildAnnotations, json.Marshal of the manifest, then repo.Push of it.
PushManifest ==
    /\ psh.pc = "manifest"
    /\ \E ok \in BOOLEAN :
         psh' = written(psh, ok, [op |-> "push", desc |-> manifestDesc(psh)], "tag",
                        "pushing manifest", <<"pushing manifest: ">>)
    /\ UNCHANGED <<coreVars, sv, rt, cat, arts>>

\* repo.Tag of the manifest, then the result with the manifest's digest.
TagManifest ==
    /\ psh.pc = "tag"
    /\ \E ok \in BOOLEAN :
         \E st \in {written(psh, ok,
                           [op |-> "tag", desc |-> manifestDesc(psh), tag |-> psh.tag],
                           "done", "tagging manifest",
                           <<"tagging manifest as ">> \o psh.tag \o <<": ">>)} :
             psh' = IF ok THEN [st EXCEPT !.Digest = manifestDesc(psh).Digest] ELSE st
    /\ UNCHANGED <<coreVars, sv, rt, cat, arts>>

PushNext ==
    \/ RejectReference
    \/ PushConfigBlob
    \/ CreateArchiveFails
    \/ PushContentLayer
    \/ PushManifest
    \/ TagManifest

SvIdle == sv = <<>>

RtIdle == rt = <<>>

CatIdle == cat = <<>>

ArtsIdle == arts = <<>>

PushIdle == psh = <<>>

ListIdle == SvIdle /\ RtIdle /\ CatIdle /\ ArtsIdle /\ PushIdle

ResIdle == rin = <<>> /\ rout = <<>>

RefsIdle == heap = <<>> /\ loop = <<>>

PullIdle ==
    /\ registry = <<>> /\ clock = 0 /\ dir = <<>> /\ last = <<>>

CacheIdle == cdir = <<>> /\ cop = <<>>

TarIdle == archive = <<>> /\ fs = {} /\ xres = <<>> /\ pres = <<>>

DepsIdle ==
    /\ opts = <<>> /\ concurrency = defaultConcurrency
    /\ p = [Toolchain |-> NoReference, Plugins |-> <<>>]
    /\ ctxDone = FALSE /\ next = 0 /\ sem = 0 /\ gErr = "" /\ mu = NoHolder
    /\ tasks = <<>> /\ plugins = <<>>
    /\ result = [Toolchain |-> ZeroDescribed, hasToolchain |-> FALSE,
                 Plugins |-> <<>>, Warnings |-> <<>>]
    /\ ret = [done |-> TRUE, err |-> "", hasResult |-> FALSE]

DepsNext ==
    \/ GoToolchain
    \/ SkipToolchain
    \/ GoPlugin
    \/ \E i \in TaskIds : DescribeReturns(i)
    \/ \E i \in TaskIds : Lock(i)
    \/ \E i \in TaskIds : Unlock(i)
    \/ Wait
    \/ Cancel

Init == DepsInit /\ PullIdle /\ CacheIdle /\ TarIdle /\ ResIdle /\ RefsIdle /\ ListIdle

Spec == Init /\ [][DepsNext]_vars

\* The scheduler runs every goroutine that can take a step, and every
\* transport call returns.
FairSpec == Spec /\ WF_vars(DepsNext)

PullNext == Pull \/ Retag

PullSpecInit == PullInit /\ DepsIdle /\ CacheIdle /\ TarIdle /\ ResIdle /\ RefsIdle /\ ListIdle

PullSpec == PullSpecInit /\ [][PullNext]_vars

CacheNext == Write \/ Recreate

CacheSpecInit == CacheInit /\ DepsIdle /\ PullIdle /\ TarIdle /\ ResIdle /\ RefsIdle /\ ListIdle

CacheSpec == CacheSpecInit /\ [][CacheNext]_vars

TarNext == Extract

PackNext == CreateTarGz \/ ExtractCreated

PackSpecInit == PackInit /\ DepsIdle /\ PullIdle /\ CacheIdle /\ ResIdle /\ RefsIdle /\ ListIdle

PackSpec == PackSpecInit /\ [][PackNext]_vars

RefsSpecInit ==
    RefsInit /\ DepsIdle /\ PullIdle /\ CacheIdle /\ TarIdle /\ ResIdle /\ ListIdle

RefsSpec == RefsSpecInit /\ [][RefsNext]_vars

ResolveSpecInit ==
    ResolveInit /\ DepsIdle /\ PullIdle /\ CacheIdle /\ TarIdle /\ RefsIdle /\ ListIdle

ResolveSpec == ResolveSpecInit /\ [][ResolveNext]_vars

TarSpecInit == TarInit /\ DepsIdle /\ PullIdle /\ CacheIdle /\ ResIdle /\ RefsIdle /\ ListIdle

TarSpec == TarSpecInit /\ [][TarNext]_vars

CoreIdle == DepsIdle /\ PullIdle /\ CacheIdle /\ TarIdle /\ ResIdle /\ RefsIdle

VersionsSpecInit == VersionsInit /\ CoreIdle /\ RtIdle /\ CatIdle /\ ArtsIdle /\ PushIdle

VersionsSpec == VersionsSpecInit /\ [][VersionsNext]_vars

RoundTripSpecInit == RoundTripInit /\ CoreIdle /\ SvIdle /\ CatIdle /\ ArtsIdle /\ PushIdle

RoundTripSpec == RoundTripSpecInit /\ [][RoundTripNext]_vars

CatalogSpecInit == CatalogInit /\ CoreIdle /\ SvIdle /\ RtIdle /\ ArtsIdle /\ PushIdle

CatalogSpec == CatalogSpecInit /\ [][CatalogNext]_vars

ArtifactsSpecInit == ArtifactsInit /\ CoreIdle /\ SvIdle /\ RtIdle /\ CatIdle /\ PushIdle

ArtifactsSpec == ArtifactsSpecInit /\ [][ArtifactsNext]_vars

PushSpecInit == PushInit /\ CoreIdle /\ SvIdle /\ RtIdle /\ CatIdle /\ ArtsIdle

PushSpec == PushSpecInit /\ [][PushNext]_vars

(***************************************************************************)
(* Properties of ResolvePersonalityDeps.                                   *)
(***************************************************************************)
Returned == ret.done

Count(q, Test(_)) == Cardinality({i \in 1..Len(q) : Test(q[i])})

DeclaredRepos == {p.Plugins[i].Repository : i \in 1..NumPlugins}

ToolchainWarnings == Count(result.Warnings, LAMBDA w : w.kind = "toolchain")

PluginWarnings == Count(result.Warnings, LAMBDA w : w.kind = "plugin")

InFlight == Cardinality({i \in TaskIds : tasks[i].st \in {"run", "lock", "crit"}})

Succeeded == {i \in 1..NumPlugins : tasks[i].st = "done" /\ tasks[i].out.err = ""}

\* The k-th declared plugin, in declaration order, among those that succeeded.
KthSucceeded(k) ==
    CHOOSE i \in Succeeded : Cardinality({j \in Succeeded : j <= i}) = k

\* C1: when ResolvePersonalityDeps returns, every declared dependency is
\* accounted for exactly once: the toolchain, when declared, is either the
\* result's toolchain or one toolchain warning; for every repository, the
\* plugins declared for it are as many as its resolved plugins plus its
\* plugin warnings; and there is no other warning or result.
C1_AccountedExactlyOnce ==
    (Returned /\ ret.err = "") =>
        /\ IF p.Toolchain.Repository # <<>>
           THEN (result.hasToolchain /\ ToolchainWarnings = 0)
                \/ (~result.hasToolchain /\ ToolchainWarnings = 1)
           ELSE ~result.hasToolchain /\ ToolchainWarnings = 0
        /\ \A r \in DeclaredRepos :
             Count(p.Plugins, LAMBDA d : d.Repository = r)
               = Count(result.Plugins, LAMBDA dp : RepositoryFromRef(dp.Ref) = r)
                 + Count(result.Warnings,
                         LAMBDA w : w.kind = "plugin" /\ RepositoryFromRef(w.ref) = r)
        /\ Len(result.Plugins) + PluginWarnings = NumPlugins
        /\ Len(result.Warnings) = ToolchainWarnings + PluginWarnings

\* Two plugins and the toolchain were declared, some failed and some succeeded.
C1_Witness ==
    /\ Returned /\ NumPlugins = 2 /\ p.Toolchain.Repository # <<>>
    /\ Len(result.Warnings) = 2 /\ Len(result.Plugins) = 1

\* C2: when the caller's context is not cancelled, the call returns a nil
\* error and a non-nil result whatever the describe outcomes are; with no
\* dependency declared the result is empty; and every dependency that was
\* described successfully is reported although siblings failed.
C2_NeverFailsOnDependencyErrors ==
    (Returned /\ ~ctxDone) =>
        /\ ret.err = "" /\ ret.hasResult
        /\ (p.Toolchain.Repository = <<>> /\ NumPlugins = 0) =>
             (~result.hasToolchain /\ result.Plugins = <<>> /\ result.Warnings = <<>>)
        /\ \A i \in 1..NumPlugins :
             /\ tasks[i].st = "done"
             /\ tasks[i].out.err = "" =>
                  \E k \in 1..Len(result.Plugins) : result.Plugins[k] = tasks[i].out.d
        /\ p.Toolchain.Repository # <<>> =>
             /\ tasks[0].st = "done"
             /\ tasks[0].out.err = "" =>
                  (result.hasToolchain /\ result.Toolchain = tasks[0].out.d)

\* Every dependency but one plugin failed, and that plugin is reported.
C2_Witness ==
    /\ Returned /\ ~ctxDone /\ NumPlugins = 2 /\ p.Toolchain.Repository # <<>>
    /\ Len(result.Warnings) = 2 /\ Len(result.Plugins) = 1 /\ ret.err = ""

\* C3: result.Plugins lists the successfully described plugins in the order
\* of their declaration in p.Plugins, whatever order the tasks finished in.
C3_DeclarationOrder ==
    (Returned /\ ret.err = "") =>
        /\ Len(result.Plugins) = Cardinality(Succeeded)
        /\ \A k \in 1..Len(result.Plugins) :
             result.Plugins[k] = tasks[KthSucceeded(k)].out.d

\* Two different plugins both succeeded.
C3_Witness ==
    /\ Returned /\ Len(result.Plugins) = 2
    /\ result.Plugins[1] # result.Plugins[2]

\* C4: a cancellation of the context that reaches a dependency task makes
\* the call return that cancellation as a non-nil error.
C4_CancellationReturned ==
    (Returned /\ \E k \in 1..Len(result.Warnings) : result.Warnings[k].err = Canceled)
        => ret.err # ""

\* C5: the tasks started and not finished never exceed the client's limit,
\* which is the last positive WithConcurrency value given to NewClient, or
\* 10 without one, and so at least 1.
C5_BoundedConcurrency ==
    LET positive == {i \in 1..Len(opts) : opts[i] > 0}
    IN  /\ InFlight <= concurrency
        /\ concurrency >= 1
        /\ concurrency = IF positive = {} THEN 10 ELSE opts[SetMax(positive)]

\* The limit is reached while a dependency still waits to be started.
C5_Witness ==
    /\ InFlight = concurrency /\ next <= NumPlugins /\ ~Returned
    /\ opts # <<>>

\* C6: the call returns only after every task it started has finished, and
\* it eventually returns, also with more dependencies than the limit.
C6_WaitsAndReturns ==
    /\ [](Returned => \A i \in TaskIds :
            /\ tasks[i].st \in {"idle", "done"}
            /\ (i >= 1 \/ p.Toolchain.Repository # <<>>) => tasks[i].st = "done")
    /\ <>Returned

\* The call returned although it had more dependencies than the limit.
C6_Witness ==
    /\ Returned /\ NumPlugins + 1 > concurrency
    /\ p.Toolchain.Repository # <<>>
    /\ \A i \in TaskIds : tasks[i].st = "done"

(***************************************************************************)
(* Properties of pull and of the cache record.                             *)
(***************************************************************************)
\* The step is a call of pull.
PullStep == last'.n # last.n

\* C7: a pull that resolves its reference to a digest for which IsCached
\* holds fetches neither manifest, config nor layer, leaves the directory and
\* its record, PulledAt included, as they were, and returns Cached = true
\* with the ConfigJSON and the Annotations the record stores.
C7_CacheHitLeavesDirectory ==
    [][(PullStep /\ last'.digest # NoDigest /\ IsCached(dir, last'.digest)) =>
          /\ last'.fetched = {}
          /\ dir' = dir
          /\ last'.err = ""
          /\ last'.res.Cached
          /\ last'.res.Digest = last'.digest
          /\ last'.res.ConfigJSON = dir.record.configJSON
          /\ last'.res.Annotations =
               IF dir.record.annotations = "omitted" THEN "nil"
               ELSE dir.record.annotations]_vars

\* A pull was answered from a record written by an earlier pull, with the
\* config and the annotations of that record.
C7_Witness ==
    /\ last.n >= 2 /\ last.err = "" /\ last.res.Cached
    /\ last.res.ConfigJSON = [doc |-> "c", layout |-> "indented"]
    /\ last.res.Annotations = "kv"
    /\ dir.record.pulledAt < clock

\* C8: once a pull has succeeded with digest D, and until a pull fetches
\* something of another digest, a pull that resolves to D returns Cached =
\* true and fetches nothing; a pull that resolves to another digest D2 and
\* succeeds has fetched manifest, config and layer, has replaced the content
\* and the record, and leaves D2 as the only digest IsCached holds for.
C8_DigestKeyedCache ==
    [][(PullStep /\ last.synced # NoDigest /\ last'.digest # NoDigest) =>
          /\ last'.digest = last.synced =>
               /\ last'.err = "" /\ last'.res.Cached /\ last'.fetched = {}
               /\ \A d \in PullDigests : IsCached(dir', d) <=> d = last.synced
          /\ (last'.digest # last.synced /\ last'.err = "") =>
               /\ ~last'.res.Cached /\ last'.fetched = AllContent
               /\ dir'.record.kind = "json"
               /\ dir'.record.pulledAt = clock'
               /\ dir'.tree =
                    extractTarGz(FreshDest,
                        ManifestOf(last'.digest).Layers[
                            ContentLayer(ManifestOf(last'.digest), last'.kind)].archive).tree
               /\ \A d \in PullDigests : IsCached(dir', d) <=> d = last'.digest]_vars

\* After a pull of S1, a pull of S2 replaced it, and a third pull resolved to
\* S2 again.
C8_Witness ==
    /\ last.n = 3 /\ last.synced = S2 /\ last.res.Cached /\ last.err = ""
    /\ dir.record.pulledAt = 2
    /\ Kind(dir.tree, destDir \o <<"/","a","/","b">>) = "file"
    /\ Kind(dir.tree, destDir \o <<"/","a">>) # "file"

\* C9 as stated: IsCached(dir, d) holds exactly when dir has a readable
\* record whose digest is d; after a WriteCacheEntry of an entry with digest
\* D that succeeded, IsCached holds for D and for no other digest; and it
\* holds for no digest when the directory has no record.
C9_RoundTripAnyDigest ==
    /\ \A d \in Digests :
         IsCached(cdir, d) <=>
            (cdir.record.kind = "json" /\ decodeString(cdir.record.digest) = d)
    /\ (cop.op = "write" /\ cop.err = "") =>
         \A d \in Digests : IsCached(cdir, d) <=> d = cop.entry.Digest
    /\ cdir.record = NoFile => \A d \in Digests : ~IsCached(cdir, d)

\* C9, amended: the same, for the entries whose digest is valid UTF-8.
C9_RoundTrip ==
    /\ \A d \in Digests :
         IsCached(cdir, d) <=>
            (cdir.record.kind = "json" /\ decodeString(cdir.record.digest) = d)
    /\ (cop.op = "write" /\ cop.err = "" /\ ValidUTF8(cop.entry.Digest)) =>
         \A d \in Digests : IsCached(cdir, d) <=> d = cop.entry.Digest
    /\ cdir.record = NoFile => \A d \in Digests : ~IsCached(cdir, d)

\* A second write replaced the record, with a digest the encoding escapes.
C9_Witness ==
    /\ cop.n = 2 /\ cop.op = "write" /\ cop.err = ""
    /\ cop.entry.Digest = <<"<">>
    /\ cdir.record.digest = <<"u003c">>
    /\ IsCached(cdir, <<"<">>) /\ ~IsCached(cdir, <<"a">>)

(***************************************************************************)
(* Properties of extractTarGz.                                             *)
(***************************************************************************)
\* The cleaned name is absolute or its first element is "..".
Escapes(name) ==
    LET c == Clean(name)
    IN  c[1] = "/" \/ Split(c)[1] = DotDot

EscapingEntries == {k \in 1..Len(archive.headers) : Escapes(archive.headers[k].Name)}

Inside(path) == path = destDir \/ HasPrefix(path, destDir \o <<"/">>)

\* C10: when an archive holds an entry whose cleaned path is absolute or
\* starts with a ".." element, extractTarGz returns an error no later than at
\* the first such entry, for which it creates nothing; and whatever it
\* returns, every path it created or wrote is destDir or below it, and what
\* existed outside is as it was.
C10_NoEscape ==
    xres.done =>
        /\ (archive.gzip /\ EscapingEntries # {}) =>
             LET k == SetMin(EscapingEntries)
             IN  /\ xres.err # ""
                 /\ xres.read <= k
                 /\ xres.read = k =>
                      /\ xres.err = "invalid path in archive"
                      /\ fs = extractEntries(FreshDest, SubSeq(archive.headers, 1, k - 1), 0).tree
        /\ \A e \in fs : e \in FreshDest \/ Inside(e.path)
        /\ FreshDest \subseteq fs

\* A file was extracted, and the entry after it is refused for leaving destDir.
C10_Witness ==
    /\ xres.done /\ xres.read = 2 /\ xres.err = "invalid path in archive"
    /\ archive.headers[2].Name = <<"a","/",".",".","/",".",".","/","a">>
    /\ \E e \in fs : e.kind = "file" /\ Inside(e.path)

\* A regular-file entry whose content is larger than maxExtractFileSize.
Oversized(h) == h.Typeflag = "reg" /\ h.Size > maxExtractFileSize

\* The path an entry is extracted to.
Target(h) == Join(destDir, Clean(h.Name))

\* The errors of an entry that come before its content is copied.
BeforeCopy ==
    {"invalid path in archive", "path escapes destination",
     "creating parent directory", "creating file"}

\* C11: when extractTarGz comes to copy an entry whose content exceeds
\* maxExtractFileSize, it fails with the oversized-file error, and afterwards
\* destDir holds no file for that entry.
C11_OversizedLeavesNoFile ==
    xres.done =>
        \A k \in 1..Len(archive.headers) :
            (xres.read = k /\ Oversized(archive.headers[k]) /\ xres.err \notin BeforeCopy)
                => /\ xres.err = "exceeds max size"
                   /\ Kind(fs, Target(archive.headers[k])) # "file"

\* An entry that is neither a directory nor a regular file.
Other(h) == h.Typeflag \notin {"dir", "reg"}

\* The tree when the loop comes to the k-th entry.
TreeBefore(k) == extractEntries(FreshDest, SubSeq(archive.headers, 1, k - 1), 0).tree

\* The errors that one entry can cause.
EntryErrors == BeforeCopy \cup {"creating directory", "exceeds max size"}

\* C12 as stated: every entry that is neither a directory nor a regular
\* file, whatever its name, creates nothing, raises no error, and the loop
\* goes on to the next entry.
C12_SkipsEveryOtherEntry ==
    (xres.done /\ archive.gzip) =>
        \A k \in 1..xres.read :
            Other(archive.headers[k]) =>
                /\ extractEntry(TreeBefore(k), archive.headers[k]).tree = TreeBefore(k)
                /\ xres.read = k => xres.err \notin EntryErrors
                /\ (xres.read = k /\ xres.err = "") => k = Len(archive.headers)

\* C12: an entry that is neither a directory nor a regular file, and whose
\* cleaned name is neither absolute nor begins with "..", creates nothing,
\* raises no error, and the loop goes on to the next entry; when the archive
\* holds only such entries the destination stays empty.
C12_SkipsOtherEntries ==
    (xres.done /\ archive.gzip) =>
        /\ \A k \in 1..xres.read :
                (Other(archive.headers[k]) /\ ~InvalidPath(Clean(archive.headers[k].Name))) =>
                    /\ extractEntry(TreeBefore(k), archive.headers[k]).tree = TreeBefore(k)
                    /\ xres.read = k => xres.err \notin EntryErrors
                    /\ (xres.read = k /\ xres.err = "") => k = Len(archive.headers)
        /\ (\A k \in 1..Len(archive.headers) :
                Other(archive.headers[k]) /\ ~InvalidPath(Clean(archive.headers[k].Name)))
             => (fs = FreshDest /\ xres.read = Len(archive.headers))

\* A symlink entry was passed over and the file after it was extracted.
C12_Witness ==
    /\ xres.done /\ xres.err = "" /\ xres.read = 2
    /\ archive.headers[1] = [Name |-> <<"a">>, Typeflag |-> "symlink", Size |-> 0, Data |-> ""]
    /\ archive.headers[2].Typeflag = "reg"
    /\ archive.headers[2].Name = <<"a","/","b">>
    /\ Kind(fs, destDir \o <<"/","a">>) = "dir"
    /\ Kind(fs, destDir \o <<"/","a","/","b">>) = "file"

\* The nodes below base.
Below(base) == {e \in fs : HasPrefix(e.path, base \o <<"/">>)}

\* The directories and regular files of the source that do not have the name
\* of the cache file.
Archivable ==
    {e \in Below(sourceDir) :
        e.kind \in {"dir", "file"} /\ Base(Rel(sourceDir, e.path)) # cacheFileName}

HeaderOf(e) ==
    [Name |-> Rel(sourceDir, e.path), Typeflag |-> IF e.kind = "dir" THEN "dir" ELSE "reg",
     Size |-> e.size, Data |-> e.data]

RegularOnly == \A e \in Below(sourceDir) : e.kind \in {"dir", "file"}

\* What is below base, by relative path, without what has the name of the
\* cache file.
Content(base) ==
    { [rel |-> Rel(base, e.path), kind |-> e.kind, size |-> e.size, data |-> e.data] :
        e \in {n \in Below(base) : Base(Rel(base, n.path)) # cacheFileName} }

\* C14 as stated: for every source tree of directories and regular files,
\* extracting what createTarGz returned succeeds and leaves in the
\* destination the relative paths and file contents of the source, the
\* cache file aside.
C14_RoundTripEveryTree ==
    (pres.done /\ pres.err = "" /\ xres.done /\ RegularOnly) =>
        /\ xres.err = ""
        /\ Content(destDir) = Content(sourceDir)

\* No file of the source is larger than extractTarGz accepts, and no
\* relative path begins with "..".
Extractable ==
    \A e \in Below(sourceDir) :
        /\ e.size <= maxExtractFileSize
        /\ ~HasPrefix(Rel(sourceDir, e.path), DotDot)

\* C14: for every source tree of directories and regular files in which no
\* file is larger than maxExtractFileSize and no name directly below
\* sourceDir begins with "..", extracting what createTarGz returned succeeds
\* and leaves in the destination the relative paths and file contents of the
\* source, without what is named .oci-cache.json.
C14_RoundTrip ==
    (pres.done /\ pres.err = "" /\ xres.done /\ RegularOnly /\ Extractable) =>
        /\ xres.err = ""
        /\ Content(destDir) = Content(sourceDir)

\* A source with a cache record, a directory and a file in it went through
\* the round trip.
C14_Witness ==
    /\ pres.done /\ xres.done /\ xres.err = "" /\ RegularOnly /\ Extractable
    /\ Kind(fs, sourceDir \o <<"/">> \o cacheFileName) = "file"
    /\ Kind(fs, destDir \o <<"/">> \o cacheFileName) = "none"
    /\ FileNode(sourceDir \o <<"/","a","/","b">>, 1, "y") \in fs
    /\ FileNode(destDir \o <<"/","a","/","b">>, 1, "y") \in fs

\* The reference without the white space around it, said without TrimSpace:
\* what lies between its first and its last character that is no white space.
TrimOf(s) ==
    IF \A k \in 1..Len(s) : s[k] \in Space THEN <<>>
    ELSE SubSeq(s, SetMin({k \in 1..Len(s) : s[k] \notin Space}),
                   SetMax({k \in 1..Len(s) : s[k] \notin Space}))

Blank(s) == \A k \in 1..Len(s) : s[k] \in Space

\* What follows the last "/" of a reference, and what comes before it.
Segment(s) == SubSeq(s, LastIndex(s, "/") + 1, Len(s))

Prefix(s) == SubSeq(s, 1, LastIndex(s, "/"))

\* The tag of a reference: what follows the last ":" of its last segment.
TagOf(s) ==
    IF Contains(Segment(s), ":")
    THEN SubSeq(Segment(s), LastIndex(Segment(s), ":") + 1, Len(Segment(s)))
    ELSE <<>>

\* The reference carries a digest, or a tag that is not "latest".
Pinned(s) == Contains(s, "@") \/ TagOf(s) \notin {<<>>, Latest}

\* C15 as stated: a reference that carries a digest or a tag other than
\* "latest" is returned byte for byte as it was given, without a call of the
\* lister; and resolving what a successful resolution returned gives the
\* same string again.
C15_PinnedUnchanged ==
    /\ (rout.first.done /\ Pinned(TrimOf(rin.ref))) =>
          (rout.first.ref = rin.ref /\ rout.first.err = "" /\ rout.first.listed = <<>>)
    /\ rout.second.done =>
          (rout.second.ref = rout.first.ref /\ rout.second.err = "")

\* C15: a reference that holds a "/" and carries a digest or a tag other
\* than "latest" is returned as it was given but for the white space around
\* it, without a call of the lister; and when the registry base does not
\* begin with white space, resolving what a successful resolution returned
\* gives the same string again, without a call of the lister.
C15_QualifiedPinnedUnchanged ==
    /\ (rout.first.done /\ Pinned(TrimOf(rin.ref)) /\ Contains(rin.ref, "/")) =>
          /\ rout.first.ref = TrimOf(rin.ref)
          /\ rout.first.err = "" /\ rout.first.listed = <<>>
    /\ (rout.second.done /\ Head(rin.registryBase) \notin Space) =>
          /\ rout.second.ref = rout.first.ref
          /\ rout.second.err = "" /\ rout.second.listed = <<>>

\* A padded reference with a digest came back trimmed, and came back the
\* same from the second resolution.
C15_Witness ==
    /\ rout.second.done
    /\ rin.ref = <<" ","h",":","5","/","a","@","s",":","x"," ">>
    /\ rout.second.ref = <<"h",":","5","/","a","@","s",":","x">>

\* The reference has no tag, or the tag "latest", and no digest.
Floating(s) == ~Contains(s, "@") /\ (~Contains(Segment(s), ":") \/ TagOf(s) = Latest)

\* The reference without a tag "latest".
Untagged(s) ==
    IF Contains(Segment(s), ":") THEN SubSeq(s, 1, LastIndex(s, ":") - 1) ELSE s

\* The repository a floating reference names.
TargetRepo(s, registryBase) ==
    IF Contains(s, "/") THEN Untagged(s) ELSE registryBase \o <<"/">> \o Untagged(s)

\* tag is the first tag of the list with a version that no version of the
\* list is greater than.
IsHighest(tag, tags) ==
    \E i \in 1..Len(tags) :
        /\ tags[i] = tag /\ NewVersion(tag).ok
        /\ \A j \in 1..Len(tags) :
              NewVersion(tags[j]).ok =>
                  /\ ~GreaterThan(NewVersion(tags[j]), NewVersion(tag))
                  /\ j < i => GreaterThan(NewVersion(tag), NewVersion(tags[j]))

HasSemver(tags) == \E i \in 1..Len(tags) : NewVersion(tags[i]).ok

\* C16: for a reference without tag or with the tag "latest", given as a
\* short name or as a full repository, resolveArtifactRef lists the tags of
\* the repository it names (registryBase/name for a short name) once and
\* nothing else, and when the list holds a semver tag returns that
\* repository, ":" and the highest semver tag of the list; so every form
\* that names the same repository gives the same result.
C16_ResolvesHighest ==
    \A t \in {TrimOf(rin.ref)} :
        (rout.first.done /\ t # <<>> /\ Floating(t)) =>
            /\ rout.first.listed = <<TargetRepo(t, rin.registryBase)>>
            /\ (rin.listing.err = "" /\ HasSemver(rin.listing.tags)) =>
                  /\ rout.first.err = ""
                  /\ \E tag \in Tags :
                        /\ IsHighest(tag, rin.listing.tags)
                        /\ rout.first.ref = TargetRepo(t, rin.registryBase) \o <<":">> \o tag

\* A short name with the tag "latest" was resolved against a list whose
\* highest version comes second and is followed by its pre-release.
C16_Witness ==
    /\ rout.first.done
    /\ rin.ref = <<"a",":">> \o Latest
    /\ rin.registryBase = <<"h">>
    /\ rin.listing.tags = << <<"v","1",".","0",".","0">>, <<"1",".","1",".","0">> >>
    /\ rout.first.ref = <<"h","/","a",":","1",".","1",".","0">>
    /\ rout.first.listed = << <<"h","/","a">> >>

\* C17: for an identifier that is empty or white space only,
\* resolveArtifactRef returns the error "empty artifact reference" and the
\* empty string, and does not call the lister.
C17_EmptyReference ==
    (rout.first.done /\ Blank(rin.ref)) =>
        /\ rout.first.err = "empty artifact reference"
        /\ rout.first.ref = <<>>
        /\ rout.first.listed = <<>>

\* An identifier of a tab and a newline was refused.
C17_Witness ==
    /\ rout.first.done /\ rin.ref = <<"\t", "\n">>
    /\ rout.first.err = "empty artifact reference"

\* C18: when resolveArtifactRef returns an error the reference it returns
\* is empty; it returns an error when the lister fails, and "no semver tags
\* found" when the list holds no semver tag.
C18_NoPartialReference ==
    rout.first.done =>
        /\ rout.first.err # "" => rout.first.ref = <<>>
        /\ (rout.first.listed # <<>> /\ rin.listing.err # "") => rout.first.err = "listing tags"
        /\ (rout.first.listed # <<>> /\ rin.listing.err = "" /\ ~HasSemver(rin.listing.tags))
              => rout.first.err = "no semver tags found"

\* The list of a repository held "latest" alone.
C18_Witness ==
    /\ rout.first.done /\ rin.listing.tags = <<Latest>>
    /\ rout.first.listed = << <<"h",":","5","/","a">> >>
    /\ rout.first.err = "no semver tags found" /\ rout.first.ref = <<>>

\* The reference with another prefix before its last "/".
Reprefixed(s) == <<"x", "/">> \o Segment(s)

\* s without the prefix that Reprefixed gave it.
Unprefixed(s) == SubSeq(s, 3, Len(s))

\* The helpers answer for s as they answer for its last segment behind
\* another prefix.
SegmentOnly(s) ==
    /\ hasDigest(s) = hasDigest(Reprefixed(s))
    /\ hasTagOrDigest(s) = hasTagOrDigest(Reprefixed(s))
    /\ extractTag(s) = extractTag(Reprefixed(s))
    /\ RepositoryFromRef(s) = Prefix(s) \o Unprefixed(RepositoryFromRef(Reprefixed(s)))

\* The colon of a tag is looked for in the last segment.
ColonInSegmentOnly(s) ==
    /\ SplitNameTag(s).tag = SplitNameTag(Reprefixed(s)).tag
    /\ SplitNameTag(s).name = Prefix(s) \o Unprefixed(SplitNameTag(Reprefixed(s)).name)
    /\ ~Contains(s, "@") =>
          (hasTagOrDigest(s) <=> Contains(Segment(s), ":"))

\* resolveArtifactRef calls the lister for s exactly when it does for the
\* last segment of s behind another prefix.
ListsAlike(s) ==
    (rout.first.listed = <<>>) <=>
        (resolveArtifactRef(Reprefixed(s), rin.registryBase, ListerOf(rin.listing)).listed = <<>>)

C20_InputNotMutated ==
    /\ heap[CallerAddr] = loop.input
    /\ loop.plugins = CallerAddr
    /\ (loop.pc = "done" /\ loop.err = "") =>
          /\ loop.ret \notin {NilSlice, loop.plugins}
          /\ Len(heap[loop.ret]) = Len(loop.input)
          /\ \A i \in 1..Len(loop.input) :
                /\ heap[loop.ret][i].Repository = loop.input[i].Repository
                /\ heap[loop.ret][i].Digest = loop.input[i].Digest
    /\ (loop.pc = "done" /\ loop.err # "") => loop.ret = NilSlice

\* A "latest" tag was resolved in the copy, after an entry with a digest,
\* and the caller's entry still says "latest".
C20_Witness ==
    /\ loop.pc = "done" /\ loop.err = "" /\ Len(loop.input) = 2
    /\ loop.input[1].Digest # <<>>
    /\ heap[CallerAddr][2].Tag = Latest
    /\ heap[loop.ret][2].Tag = <<"1",".","1",".","0">>

\* The entry asks for the latest version: no digest, and no tag or "latest".
Floats(e) == e.Digest = <<>> /\ e.Tag \in {<<>>, Latest}

\* The lookup of the latest tag fails for the entry: the lister fails for
\* its repository or lists no semver tag.
Fails(e) ==
    /\ Floats(e)
    /\ loop.lister[e.Repository].err # "" \/ ~HasSemver(loop.lister[e.Repository].tags)

RECURSIVE FloatingRepos(_)
\* The repositories of the entries that ask for the latest version, in the
\* order of the slice.
FloatingRepos(q) ==
    IF q = <<>> THEN <<>>
    ELSE IF Floats(Head(q)) THEN <<Head(q).Repository>> \o FloatingRepos(Tail(q))
    ELSE FloatingRepos(Tail(q))

\* The text holds the identifier, character by character.
Carries(msg, id) ==
    \E k \in 0..(Len(msg) - Len(id)) : SubSeq(msg, k + 1, k + Len(id)) = id

\* The call failed at entry k: a nil slice, an error whose text begins with
\* the repository of entry k, and listings for the entries up to k alone.
AbortedAt(k) ==
    /\ loop.ret = NilSlice /\ loop.err # ""
    /\ SubSeq(loop.msg, 1, 1 + Len(loop.input[k].Repository))
          = <<"resolving plugin ">> \o loop.input[k].Repository
    /\ \A r \in RefRepos : Carries(loop.msg, r) <=> r = loop.input[k].Repository
    /\ loop.listed = FloatingRepos(SubSeq(loop.input, 1, k))

\* C21: when the lookup of the latest tag fails for an entry of the slice,
\* resolvePluginRefs returns a nil slice and an error that names the
\* repository of the first such entry in slice order, and it has listed the
\* tags of no entry after that one; when it fails for no entry, the call
\* returns without error.
C21_FirstFailureAborts ==
    loop.pc = "done" =>
        IF \E i \in 1..Len(loop.input) : Fails(loop.input[i])
        THEN AbortedAt(SetMin({i \in 1..Len(loop.input) : Fails(loop.input[i])}))
        ELSE loop.err = "" /\ loop.ret # NilSlice

\* The lookup failed for the first of two entries that both ask for the
\* latest version, and the repository of the second was never listed.
C21_Witness ==
    /\ loop.pc = "done" /\ Len(loop.input) = 2
    /\ Fails(loop.input[1]) /\ Floats(loop.input[2])
    /\ loop.input[2].Repository # loop.input[1].Repository
    /\ loop.err # "" /\ loop.listed = <<loop.input[1].Repository>>

\* The entry of the result at place i: the entry of the input when that has
\* a digest or a tag other than "latest", and else the entry of the input
\* with the highest semver tag of its repository's list.
ResolvedAs(out, in) ==
    IF ~Floats(in) THEN out = in
    ELSE /\ out.Repository = in.Repository /\ out.Digest = in.Digest
         /\ IsHighest(out.Tag, loop.lister[in.Repository].tags)

\* C22: resolvePluginRefs lists tags for the entries without digest and
\* with no tag or the tag "latest", one listing each in slice order, and for
\* no other entry; in the slice it returns, every entry with a digest or
\* with a tag other than "latest" is the entry of the input, and every other
\* entry has the highest semver tag listed for its repository.
C22_PassThroughOrHighest ==
    /\ loop.pc = "loop" => loop.listed = FloatingRepos(SubSeq(loop.input, 1, loop.i - 1))
    /\ (loop.pc = "done" /\ loop.err = "") =>
          /\ loop.listed = FloatingRepos(loop.input)
          /\ Len(heap[loop.ret]) = Len(loop.input)
          /\ \A i \in 1..Len(loop.input) : ResolvedAs(heap[loop.ret][i], loop.input[i])

\* An entry with a digest and the tag "latest" was passed through, and the
\* entry after it got the highest version of a list that has it in second
\* place.
C22_Witness ==
    /\ loop.pc = "done" /\ loop.err = "" /\ Len(loop.input) = 2
    /\ loop.input[1].Digest # <<>> /\ loop.input[1].Tag = Latest
    /\ heap[loop.ret][1] = loop.input[1]
    /\ loop.input[2].Tag = <<>> /\ loop.input[2].Digest = <<>>
    /\ loop.lister[loop.input[2].Repository].tags
          = << <<"v","1",".","0",".","0">>, <<"1",".","1",".","0">> >>
    /\ heap[loop.ret][2].Tag = <<"1",".","1",".","0">>
    /\ loop.listed = <<loop.input[2].Repository>>

\* How often a tag stands in a list.
Occurrences(tag, tags) == Cardinality({i \in 1..Len(tags) : tags[i] = tag})

\* The list holds every valid semver tag of the input as often as the input
\* holds it, and nothing else.
ExactlyTheValid(out, in) ==
    /\ \A i \in 1..Len(out) : NewVersion(out[i]).ok
    /\ \A i \in 1..Len(in) :
          NewVersion(in[i]).ok => Occurrences(in[i], out) = Occurrences(in[i], in)
    /\ \A i \in 1..Len(out) : Occurrences(out[i], in) > 0

\* Each tag of the list has a higher version than the tag after it.
StrictlyDescending(out) ==
    \A i \in 1..(Len(out) - 1) : GreaterThan(NewVersion(out[i]), NewVersion(out[i + 1]))

\* No tag of the list has a lower version than a tag after it.
Descending(out) ==
    \A i \in 1..Len(out) : \A j \in (i + 1)..Len(out) :
        ~GreaterThan(NewVersion(out[j]), NewVersion(out[i]))

\* C23 as stated: sortedSemverTags returns exactly the valid semver tags of
\* its input, each with a higher version than the one after it, and returns
\* the same list when called again with the same input.
C23_StrictlyDescending ==
    /\ sv.first.done =>
          (ExactlyTheValid(sv.first.tags, sv.tags) /\ StrictlyDescending(sv.first.tags))
    /\ sv.second.done => sv.second.tags = sv.first.tags

\* C23: sortedSemverTags returns exactly the valid semver tags of its input,
\* every one of them also when two have the same version, none of them
\* before a tag of a higher version, so that a pre-release comes after its
\* release and before the release below it; and it returns the same list
\* when called again with the same input.
C23_Descending ==
    /\ sv.first.done =>
          (ExactlyTheValid(sv.first.tags, sv.tags) /\ Descending(sv.first.tags))
    /\ sv.second.done => sv.second.tags = sv.first.tags

\* A list with "latest" in it was sorted twice: the pre-release came out
\* between its release and the release below it.
C23_Witness ==
    /\ sv.second.done
    /\ sv.tags = << <<"v","1",".","1",".","0","-","r","c">>, Latest,
                    <<"v","1",".","0",".","0">> >>
    /\ sv.first.tags = << <<"v","1",".","1",".","0","-","r","c">>,
                          <<"v","1",".","0",".","0">> >>
    /\ sv.second.tags = sv.first.tags

\* C24: LatestSemverTag returns the first element of what sortedSemverTags
\* returns for the same list when the list holds a valid semver tag, and the
\* empty string exactly when it holds none.
C24_LatestIsHeadOfSorted ==
    (sv.first.done /\ sv.latest.done) =>
        /\ HasSemver(sv.tags) => sv.latest.tags = Head(sv.first.tags)
        /\ (sv.latest.tags = <<>>) <=> ~HasSemver(sv.tags)

\* The string of a reference: the repository, then "@" and the digest when
\* there is one, else ":" and the tag when there is one.
RefString(r) ==
    r.Repository \o (IF r.Digest # <<>> THEN <<"@">> \o r.Digest
                     ELSE IF r.Tag # <<>> THEN <<":">> \o r.Tag
                     ELSE <<>>)

\* The reference was built from a tag: it has a tag and no digest.
FromTag(r) == r.Digest = <<>> /\ r.Tag # <<>>

WellFormed(r) ==
    /\ Contains(r.Repository, "/") /\ ~Contains(r.Repository, "@")
    /\ \A i \in 1..Len(r.Tag) : r.Tag[i] \notin {"/", ":", "@"}

UnderBase(names, base) ==
    LET host == Before(base, "/")
        path == After(base, "/") \o <<"/">>
        under == SelectSeq(names, LAMBDA n : HasPrefix(n, path))
    IN  [i \in 1..Len(under) |-> host \o <<"/">> \o under[i]]

\* C27: for a catalog in ascending order, served in pages of any size,
\* ListRepositories(host/prefix) returns the repositories of the catalog
\* whose names begin with prefix and "/", each behind the host, and no
\* other; it asks for no name at or before the prefix and for no page after
\* the one that holds the first name behind the names under the prefix.
C27_ExactlyUnderPrefix ==
    /\ (cat.pc = "done" /\ cat.err = "") => cat.repos = UnderBase(cat.names, cat.registryBase)
    /\ cat.pc # "start" =>
          \A i \in 1..Len(cat.names) :
              /\ ~Less(TrimSuffix(cat.prefix, "/"), cat.names[i]) => cat.pos > i
              /\ (i > 1 /\ Less(cat.prefix, cat.names[i - 1]) /\ ~HasPrefix(cat.names[i - 1], cat.prefix))
                    => cat.pos <= i - 1 + cat.size

\* From a catalog of eight names in pages of two, the listing began behind
\* the prefix itself, passed over o/p-x/f, took the two names under o/p/ and
\* stopped at o/p0/f without asking for the page after it.
C27_Witness ==
    /\ cat.pc = "done" /\ cat.err = "" /\ cat.size = 2
    /\ cat.names = CatalogNames /\ cat.registryBase = <<"h","/","o","/","p">>
    /\ cat.repos = << <<"h","/","o","/","p","/","a">>, <<"h","/","o","/","p","/","b">> >>
    /\ cat.pages = 2

\* The repository found at place i passes the filter, its tags can be
\* listed, and one of them is a semver tag.
Eligible(i) ==
    /\ arts.filter = "nil" \/ Accepts(arts.filter, arts.found[i])
    /\ arts.listing[i].err = "" /\ HasSemver(arts.listing[i].tags)

\* The entry names the repository found at place i and refers to it by the
\* highest semver tag of its list.
EntryOf(e, i) ==
    /\ e.Repository = arts.found[i]
    /\ \E k \in 1..Len(arts.listing[i].tags) :
          /\ IsHighest(arts.listing[i].tags[k], arts.listing[i].tags)
          /\ e.Reference = arts.found[i] \o <<":">> \o arts.listing[i].tags[k]

\* C28: once the repositories are found, listArtifacts returns without
\* error, whatever the resolutions return and in whatever order they
\* finish; the list it returns has one entry for each repository found that
\* passes the filter and has a semver tag, with the repository, ":" and the
\* highest semver tag as its reference, no other entry, and the entries in
\* ascending order of their repositories.
C28_SortedLatestPerRepository ==
    /\ (arts.ret.done /\ arts.ret.err # "") => (arts.tasks = <<>> /\ arts.repos = <<>>)
    /\ (arts.ret.done /\ arts.ret.err = "") =>
          /\ \A i \in 1..Len(arts.found) :
                Cardinality({k \in 1..Len(arts.ret.artifacts) :
                                arts.ret.artifacts[k].Repository = arts.found[i]})
                    = IF Eligible(i) THEN 1 ELSE 0
          /\ \A k \in 1..Len(arts.ret.artifacts) :
                \E i \in 1..Len(arts.found) : EntryOf(arts.ret.artifacts[k], i)
          /\ \A k \in 1..(Len(arts.ret.artifacts) - 1) :
                Less(arts.ret.artifacts[k].Repository, arts.ret.artifacts[k + 1].Repository)

\* Of three repositories the second could not be listed and the third was
\* appended before the first; the list returned has the first before the
\* third, each with the highest version.
C28_Witness ==
    /\ arts.ret.done /\ arts.ret.err = "" /\ Len(arts.found) = 3
    /\ arts.listing[2].err # ""
    /\ Len(arts.artifacts) = 2 /\ arts.artifacts[1].Repository = <<"h","/","f">>
    /\ arts.ret.artifacts =
          << [Repository |-> <<"h","/","a">>,
              Reference |-> <<"h","/","a",":","1",".","1",".","0">>],
             [Repository |-> <<"h","/","f">>,
              Reference |-> <<"h","/","f",":","1",".","1",".","0">>] >>

(***************************************************************************)
(* push and the errors of the entry points                                 *)
(***************************************************************************)
\* What each registry write is about, in the order of the calls.
WriteKinds(q) ==
    [i \in 1..Len(q) |->
        IF q[i].op = "tag" THEN "tag" ELSE q[i].desc.MediaType[Len(q[i].desc.MediaType)]]

PushOrder == <<"config", "content", "manifest", "tag">>

\* C25: an error that PushPlugin or PushPersonality returns carries in its
\* text the reference it was called with, or the repository of that
\* reference.
C25_ErrorsCarryTheReference ==
    (psh # <<>> /\ psh.pc = "done" /\ psh.err # "") =>
        \/ Carries(psh.msg, psh.ref)
        \/ Carries(psh.msg, RepositoryFromRef(psh.ref))

\* C30: what push has written to the registry is a prefix of config blob,
\* content layer, manifest, tag; after a failure nothing more is written,
\* so a tag is on the registry only after the three pushes succeeded; and
\* for a reference without a tag nothing is written at all.
C30_OrderedWritesTagLast ==
    psh # <<>> =>
        /\ WriteKinds(psh.registry) = SubSeq(PushOrder, 1, Len(psh.registry))
        /\ psh.err # "" => (psh.pc = "done" /\ Len(psh.registry) < Len(PushOrder))
        /\ extractTag(psh.ref) = <<>> => psh.registry = <<>>

(***************************************************************************)
(* The record and the content of a destination directory                   *)
(***************************************************************************)
\* The content layers of the manifest whose archives extract without error.
ExtractableLayers(digest) ==
    {i \in 1..Len(ManifestOf(digest).Layers) :
        /\ ManifestOf(digest).Layers[i].MediaType \in Kinds
        /\ extractTarGz(FreshDest, ManifestOf(digest).Layers[i].archive).err = ""}

\* What the directory holds after the complete extraction of a content
\* layer of the manifest.
CompleteExtractions(digest) ==
    {extractTarGz(FreshDest, ManifestOf(digest).Layers[i].archive).tree :
        i \in ExtractableLayers(digest)}

\* C29: after any sequence of pulls into the directory, whenever the
\* directory holds a readable record with a digest D, what the directory
\* holds is the complete extraction of a content layer of the manifest with
\* digest D; so no pull that failed leaves a record that makes a later pull
\* a cache hit on other content.
C29_RecordMatchesContent ==
    \A digest \in PullDigests :
        IsCached(dir, digest) => dir.tree \in CompleteExtractions(digest)

====
